---- MODULE Spec2Model ----
EXTENDS Integers, Sequences, FiniteSets, TLC

(***************************************************************************)
(* Floating-point values.  A C++ double is modelled by a binary floating-  *)
(* point number <<m, e>> of value m * 2^e whose mantissa m is normalised   *)
(* to MantBits bits (MantLo <= |m| < MantHi), with zero, NaN and the two   *)
(* infinities as separate values.  Every operation truncates its exact     *)
(* result to MantBits bits.  The exponent range is that of binary64.       *)
(***************************************************************************)
Limb == 2^14
MantLo == 2^27
MantHi == 2^28
SpecialExp == 2^20
ExpMax == 2^10
ExpMin == -(2^10) - 50

(* Let([x \in {e} |-> body]) is body with x naming the value of e, which   *)
(* is computed once however often body uses x.                             *)
Let(f) == f[CHOOSE x \in DOMAIN f : TRUE]

Zero == <<0, 0>>
NaN == <<0, SpecialExp>>
PInf == <<1, SpecialExp>>
NInf == <<-1, SpecialExp>>

IsNaN(x) == x = NaN
IsInf(x) == x = PInf \/ x = NInf
IsFinite(x) == x[2] # SpecialExp
Sgn(x) == IF x[1] > 0 THEN 1 ELSE IF x[1] < 0 THEN -1 ELSE 0
IAbs(i) == IF i < 0 THEN -i ELSE i

(* Pack a sign, a magnitude 0 <= mag < 2^31 and an exponent into a value,  *)
(* truncating the magnitude to MantBits bits.                              *)
RECURSIVE NormMag(_, _)
NormMag(mag, e) ==
  IF mag >= MantHi THEN NormMag(mag \div 2, e + 1)
  ELSE IF mag < Limb THEN NormMag(mag * Limb, e - 14)
  ELSE IF mag < 2^21 THEN NormMag(mag * 2^7, e - 7)
  ELSE IF mag < 2^25 THEN NormMag(mag * 2^3, e - 3)
  ELSE IF mag < MantLo THEN NormMag(mag * 2, e - 1)
  ELSE <<mag, e>>

(* The value of sign sg and normalised magnitude n: beyond the exponent    *)
(* range it is an infinity, below it zero.                                 *)
PackNorm(sg, n) ==
  IF n[2] + 28 > ExpMax THEN (IF sg > 0 THEN PInf ELSE NInf)
  ELSE IF n[2] + 28 <= ExpMin THEN Zero
  ELSE <<sg * n[1], n[2]>>

Pack(sg, mag, e) ==
  IF mag = 0 \/ sg = 0 THEN Zero ELSE PackNorm(sg, NormMag(mag, e))

FromInt(i) == Pack(IF i < 0 THEN -1 ELSE 1, IAbs(i), 0)
One == <<134217728, -27>> (* 1 *)
Two == <<134217728, -26>> (* 2 *)
Half == <<134217728, -28>> (* 1*2^-1 *)

FNeg(x) == IF IsNaN(x) THEN NaN ELSE <<-x[1], x[2]>>
FAbs(x) == IF IsNaN(x) THEN NaN ELSE <<IAbs(x[1]), x[2]>>

(* Comparisons: every comparison with a NaN is false, as in IEEE 754.      *)
FLt(x, y) ==
  IF IsNaN(x) \/ IsNaN(y) THEN FALSE
  ELSE IF Sgn(x) # Sgn(y) THEN Sgn(x) < Sgn(y)
  ELSE IF Sgn(x) = 0 THEN FALSE
  ELSE IF x[2] # y[2] THEN (IF Sgn(x) > 0 THEN x[2] < y[2] ELSE x[2] > y[2])
  ELSE x[1] < y[1]
FEq(x, y) == ~IsNaN(x) /\ ~IsNaN(y) /\ x = y
FLe(x, y) == FLt(x, y) \/ FEq(x, y)
FGt(x, y) == FLt(y, x)
FGe(x, y) == FLe(y, x)

RECURSIVE ShiftRight(_, _)
ShiftRight(mag, d) ==
  IF d <= 0 \/ mag = 0 THEN mag
  ELSE IF d >= 14 THEN ShiftRight(mag \div Limb, d - 14)
  ELSE mag \div (2^d)

(* Sum of two finite non-zero values, the smaller aligned to the larger    *)
(* with two guard bits.                                                    *)
AddSum(s, e) == Pack(IF s < 0 THEN -1 ELSE 1, IAbs(s), e)

AddAligned(hi, lo) ==
  AddSum(hi[1] * 4 + Sgn(lo) * ShiftRight(IAbs(lo[1]) * 4, hi[2] - lo[2]),
         hi[2] - 2)

AddFinite(x, y) ==
  IF x[2] >= y[2] THEN AddAligned(x, y) ELSE AddAligned(y, x)

FAdd(x, y) ==
  IF IsNaN(x) \/ IsNaN(y) THEN NaN
  ELSE IF IsInf(x) THEN (IF IsInf(y) /\ y # x THEN NaN ELSE x)
  ELSE IF IsInf(y) THEN y
  ELSE IF x = Zero THEN y
  ELSE IF y = Zero THEN x
  ELSE AddFinite(x, y)
FSub(x, y) == FAdd(x, FNeg(y))

(* Product of two mantissas, by 14-bit limbs: the top bits of the 56-bit   *)
(* product, floor(a * b / 2^27).                                           *)
MulLimbs(ah, al, bh, bl) ==
  2 * (ah * bh) + ((ah * bl + al * bh) + ((al * bl) \div Limb)) \div (2^13)

MulTop(a, b) == MulLimbs(a \div Limb, a % Limb, b \div Limb, b % Limb)

FMul(x, y) ==
  IF IsNaN(x) \/ IsNaN(y) THEN NaN
  ELSE IF IsInf(x) \/ IsInf(y)
       THEN (IF x = Zero \/ y = Zero THEN NaN
             ELSE IF Sgn(x) * Sgn(y) > 0 THEN PInf ELSE NInf)
  ELSE IF x = Zero \/ y = Zero THEN Zero
  ELSE Pack(Sgn(x) * Sgn(y), MulTop(IAbs(x[1]), IAbs(y[1])), x[2] + y[2] + 27)

(* Quotient of two mantissas by long division, three bits at a time:       *)
(* floor(a * 2^(3 * k) / b) for a < b.                                     *)
RECURSIVE DivDigits(_, _, _, _)
DivDigits(r, b, q, k) ==
  IF k = 0 \/ r < 0 \/ q < 0 THEN q
  ELSE DivDigits((r * 8) % b, b, q * 8 + ((r * 8) \div b), k - 1)

DivMag(a, b) == DivDigits(a % b, b, a \div b, 10)

FDiv(x, y) ==
  IF IsNaN(x) \/ IsNaN(y) THEN NaN
  ELSE IF IsInf(x)
       THEN (IF IsInf(y) THEN NaN
             ELSE IF (Sgn(x) >= 0) = (Sgn(y) >= 0) THEN PInf ELSE NInf)
  ELSE IF IsInf(y) THEN Zero
  ELSE IF y = Zero
       THEN (IF x = Zero THEN NaN ELSE IF Sgn(x) > 0 THEN PInf ELSE NInf)
  ELSE IF x = Zero THEN Zero
  ELSE Pack(Sgn(x) * Sgn(y), DivMag(IAbs(x[1]), IAbs(y[1])),
            x[2] - y[2] - 30)

(* Square root, two radicand bits at a time.  The radicand is the 56-bit  *)
(* number hi * 2^28 + lo; s = <<hi, lo, r4, root>> holds the radicand bits *)
(* still to come, four times the remainder so far and the root so far.     *)
SqrtStep(s) ==
  IF s[3] + s[1] \div (2^26) >= s[4] * 4 + 1
  THEN <<(s[1] % (2^26)) * 4 + s[2] \div (2^26), (s[2] % (2^26)) * 4,
         (s[3] + s[1] \div (2^26) - (s[4] * 4 + 1)) * 4, s[4] * 2 + 1>>
  ELSE <<(s[1] % (2^26)) * 4 + s[2] \div (2^26), (s[2] % (2^26)) * 4,
         (s[3] + s[1] \div (2^26)) * 4, s[4] * 2>>

(* k steps from s, as two runs of half as many steps; the test of s makes  *)
(* the first run end before the second begins.                             *)
RECURSIVE SqrtSteps(_, _)
SqrtSteps(s, k) ==
  IF k = 1 \/ s[4] >= MantHi THEN SqrtStep(s)
  ELSE SqrtSteps(SqrtSteps(s, k \div 2), k - k \div 2)

SqrtBits(hi, lo) == SqrtSteps(<<hi, lo, 0, 0>>, 28)[4]

FSqrt(x) ==
  IF IsNaN(x) \/ Sgn(x) < 0 THEN NaN
  ELSE IF x = PInf THEN PInf
  ELSE IF x = Zero THEN Zero
  ELSE IF x[2] % 2 # 0
       THEN Pack(1, SqrtBits(x[1] \div 2, (x[1] % 2) * MantLo),
                 (x[2] - 27) \div 2)
       ELSE Pack(1, SqrtBits(x[1], 0), (x[2] - 28) \div 2)

(***************************************************************************)
(* Decimal literals and the elementary functions of the C++/Fortran        *)
(* run-time libraries (log, atan, atanh, sin, cos), to the precision of    *)
(* the modelled floating-point format.                                     *)
(***************************************************************************)
RECURSIVE Pow10(_)
Pow10(k) ==
  IF k = 0 THEN One
  ELSE IF k % 2 = 0 THEN Let([h \in {Pow10(k \div 2)} |->
                         FMul(h, h)])
  ELSE FMul(<<167772160, -24>> (* 10 *), Pow10(k - 1))

(* The literal n * 10^k.                                                   *)
Dec(n, k) ==
  IF k >= 0 THEN FMul(FromInt(n), Pow10(k)) ELSE FDiv(FromInt(n), Pow10(-k))

(* The literal quotient p / q of two integers.                             *)
Rat(p, q) == FDiv(FromInt(p), FromInt(q))

PiHalf == <<210828714, -27>>
PiHalfLow == <<142975752, -57>>
PiQuarter == <<210828714, -28>>
Ln2 == <<186065279, -28>>

(* sum over j = 0 .. n-1 of sg^j * w^(2j+1) / (2j+1), divided by w: the    *)
(* odd series of atanh (sg = 1) and atan (sg = -1), by Horner's rule in    *)
(* w^2 from the last term down.                                            *)
RECURSIVE OddAcc(_, _, _)
OddAcc(w2s, j, acc) ==
  IF j < 0 \/ acc = NaN THEN acc
  ELSE OddAcc(w2s, j - 1, FAdd(Rat(1, 2 * j + 1), FMul(w2s, acc)))

OddSeries(w2, sg, j, n) ==
  OddAcc(IF sg > 0 THEN w2 ELSE FNeg(w2), n - 2, Rat(1, 2 * n - 1))

FLog(x) ==
  IF IsNaN(x) \/ Sgn(x) < 0 THEN NaN
  ELSE IF x = Zero THEN NInf
  ELSE IF x = PInf THEN PInf
  ELSE Let([big \in {x[1] > 189812531} |->
       Let([y \in {<<x[1], IF big THEN -28 ELSE -27>>},
            ex \in {x[2] + (IF big THEN 28 ELSE 27)} |->
       Let([w \in {FDiv(FSub(y, One), FAdd(y, One))} |->
       Let([s \in {FMul(FMul(Two, w), OddSeries(FMul(w, w), 1, 0, 7))} |->
       FAdd(FMul(FromInt(ex), Ln2), s)])])])])

FAtanh(x) ==
  IF IsNaN(x) \/ FGt(FAbs(x), One) THEN NaN
  ELSE IF x = One THEN PInf
  ELSE IF x = <<-134217728, -27>> (* -1.0 *) THEN NInf
  ELSE IF FLt(FAbs(x), <<134217728, -29>> (* 1.0/4.0 *))
       THEN FMul(x, OddSeries(FMul(x, x), 1, 0, 8))
  ELSE FMul(Half, FLog(FDiv(FAdd(One, x), FSub(One, x))))

AtanSmall(x) == FMul(x, OddSeries(FMul(x, x), -1, 0, 12))

AtanPos(x) ==
  IF x = PInf THEN PiHalf
  ELSE IF FGt(x, One) THEN
    Let([r \in {FDiv(One, x)} |->
    IF FGt(r, <<222379212, -29>> (* 0.414213562 *))
        THEN FSub(PiQuarter, AtanSmall(FDiv(FSub(r, One), FAdd(r, One))))
        ELSE FSub(PiHalf, AtanSmall(r))])
  ELSE IF FGt(x, <<222379212, -29>> (* 0.414213562 *))
       THEN FAdd(PiQuarter, AtanSmall(FDiv(FSub(x, One), FAdd(x, One))))
  ELSE AtanSmall(x)

FAtan(x) ==
  IF IsNaN(x) THEN NaN
  ELSE IF Sgn(x) < 0 THEN FNeg(AtanPos(FNeg(x)))
  ELSE AtanPos(x)

(* Taylor kernels on [0, pi/4].                                            *)
RECURSIVE TrigAcc(_, _, _, _)
TrigAcc(r2, j, jmin, acc) ==
  IF j < jmin \/ acc = NaN THEN acc
  ELSE TrigAcc(r2, j - 2, jmin,
               FSub(One, FMul(FDiv(r2, FromInt(j * (j + 1))), acc)))

SinK(r) == FMul(r, TrigAcc(FMul(r, r), 12, 2, One))
CosK(r) == TrigAcc(FMul(r, r), 11, 1, One)

(* Truncation of a finite value to an integer, for |x| < 2^30.             *)
TruncInt(x) ==
  IF x = Zero THEN 0
  ELSE IF x[2] >= 0 THEN x[1] * 2^(x[2])
  ELSE IF x[2] < -28 THEN 0
  ELSE Sgn(x) * (IAbs(x[1]) \div 2^(-x[2]))

(* sin and cos of x >= 0: quadrant q of x, remainder r in [0, pi/2).       *)
TrigPos(x, wantSin) ==
  Let([q \in {TruncInt(FDiv(x, PiHalf))} |->
  Let([r \in {FSub(FSub(x, FMul(FromInt(q), PiHalf)), FMul(FromInt(q), PiHalfLow))},
       k \in {(q + (IF wantSin THEN 0 ELSE 1)) % 4} |->
  Let([low \in {FLe(r, PiQuarter)},
       c \in {FAdd(FSub(PiHalf, r), PiHalfLow)} |->
  Let([sinr \in {IF low THEN SinK(r) ELSE CosK(c)},
       cosr \in {IF low THEN CosK(r) ELSE SinK(c)} |->
  IF k = 0 THEN sinr ELSE IF k = 1 THEN cosr
      ELSE IF k = 2 THEN FNeg(sinr) ELSE FNeg(cosr)])])])])

FSin(x) ==
  IF ~IsFinite(x) \/ FGe(FAbs(x), FromInt(2^20)) THEN NaN
  ELSE IF Sgn(x) < 0 THEN FNeg(TrigPos(FNeg(x), TRUE))
  ELSE TrigPos(x, TRUE)

FCos(x) ==
  IF ~IsFinite(x) \/ FGe(FAbs(x), FromInt(2^20)) THEN NaN
  ELSE TrigPos(FAbs(x), FALSE)

(***************************************************************************)
(* Polynomial evaluation by Horner's rule, coefficients lowest degree      *)
(* first: coef[1] + x * (coef[2] + x * (... + x * coef[n])).               *)
(***************************************************************************)
Pow2(k) == Pack(1, 1, k)

RECURSIVE HornerAcc(_, _, _, _)
HornerAcc(coef, x, i, acc) ==
  IF i = 0 \/ acc = NaN THEN acc
  ELSE HornerAcc(coef, x, i - 1, FAdd(coef[i], FMul(x, acc)))

Horner(coef, x) == HornerAcc(coef, x, Len(coef) - 1, coef[Len(coef)])

(* Conversion to single precision (REAL*4): 24 bits, round to nearest,     *)
(* binary32 exponent range.                                                *)
SingleExpMax == 2^7
SingleExpMin == -(2^7) - 22

ToSingle(x) ==
  IF ~IsFinite(x) \/ x = Zero THEN x
  ELSE IF x[2] + 28 > SingleExpMax THEN (IF Sgn(x) < 0 THEN NInf ELSE PInf)
  ELSE IF x[2] + 28 <= SingleExpMin THEN Zero
  ELSE Pack(Sgn(x), (IAbs(x[1]) + 8) \div 16, x[2] + 4)

(* A default-kind (single precision) literal n * 10^k.                     *)
Sgl(n, k) == ToSingle(Dec(n, k))

(* The minimax polynomials of elk: for each interval of m its upper     *)
(* bound (the last interval has none), the centre of the expansion and  *)
(* the coefficients, lowest degree first.                               *)
ElkUpper == <<<<214748368, -31>> (* 0.1 (single) *), <<214748368, -30>> (* 0.2 (single) *), <<161061280, -29>> (* 0.3 (single) *), <<214748368, -29>> (* 0.4 (single) *), <<134217728, -28>> (* 0.5 (single) *), <<161061280, -28>> (* 0.6 (single) *), <<187904816, -28>> (* 0.7 (single) *), <<214748368, -28>> (* 0.8 (single) *), <<228170144, -28>> (* 0.85 (single) *)>>
ElkCentre == <<<<214748368, -32>> (* 0.05 (single) *), <<161061280, -30>> (* 0.15 (single) *), <<134217728, -29>> (* 0.25 (single) *), <<187904816, -29>> (* 0.35 (single) *), <<241591904, -29>> (* 0.45 (single) *), <<147639504, -28>> (* 0.55 (single) *), <<174483040, -28>> (* 0.65 (single) *), <<201326592, -28>> (* 0.75 (single) *), <<221459248, -28>> (* 0.825 (single) *), <<234881024, -28>> (* 0.875 (single) *)>>
ElkCoef == <<
  <<
    <<213540864, -27>> (* 1.59100345 (single) *), <<223338704, -29>> (* 0.416000743 (single) *), <<263916624, -30>> (* 0.245791514 (single) *),
    <<192716768, -30>> (* 0.179481482 (single) *), <<155215888, -30>> (* 0.144556057 (single) *), <<264572112, -31>> (* 0.123200993 (single) *),
    <<233944320, -31>> (* 0.108938811 (single) *), <<212286080, -31>> (* 0.0988534098 (single) *), <<196365104, -31>> (* 0.0914396292 (single) *),
    <<184345568, -31>> (* 0.0858425915 (single) *), <<175108224, -31>> (* 0.0815411187 (single) *)>>,
  <<
    <<219480448, -27>> (* 1.63525673 (single) *), <<252968544, -29>> (* 0.471190626 (single) *), <<166284176, -29>> (* 0.30972841 (single) *),
    <<135403312, -29>> (* 0.252208311 (single) *), <<243444784, -30>> (* 0.226725623 (single) *), <<231686048, -30>> (* 0.215774446 (single) *),
    <<228823808, -30>> (* 0.213108771 (single) *), <<231959504, -30>> (* 0.216029124 (single) *), <<239719120, -30>> (* 0.223255831 (single) *),
    <<251449392, -30>> (* 0.234180501 (single) *), <<266886784, -30>> (* 0.248557682 (single) *), <<143002976, -29>> (* 0.266363809 (single) *),
    <<154473040, -29>> (* 0.287728452 (single) *)>>,
  <<
    <<226257584, -27>> (* 1.68575035 (single) *), <<145420032, -28>> (* 0.541731848 (single) *), <<215566784, -29>> (* 0.401524438 (single) *),
    <<198450288, -29>> (* 0.369642473 (single) *), <<201896064, -29>> (* 0.376060715 (single) *), <<217559360, -29>> (* 0.405235887 (single) *),
    <<243360560, -29>> (* 0.453294381 (single) *), <<139725744, -28>> (* 0.520518947 (single) *), <<163591552, -28>> (* 0.609426039 (single) *),
    <<194418016, -28>> (* 0.724263522 (single) *), <<233810992, -28>> (* 0.871013847 (single) *), <<141955760, -27>> (* 1.05765287 (single) *)>>,
  <<
    <<234122768, -27>> (* 1.74435059 (single) *), <<170420080, -28>> (* 0.634864275 (single) *), <<144912880, -28>> (* 0.539842564 (single) *),
    <<153516272, -28>> (* 0.571892705 (single) *), <<179930976, -28>> (* 0.670295136 (single) *), <<223495760, -28>> (* 0.83258659 (single) *),
    <<144130704, -27>> (* 1.07385744 (single) *), <<190869888, -27>> (* 1.42209146 (single) *), <<257750000, -27>> (* 1.92038718 (single) *),
    <<176667616, -26>> (* 2.63255254 (single) *), <<245088928, -26>> (* 3.65210974 (single) *), <<171660016, -25>> (* 5.11586713 (single) *),
    <<242399904, -25>> (* 7.22408 (single) *)>>,
  <<
    <<243455376, -27>> (* 1.81388393 (single) *), <<204860080, -28>> (* 0.763163245 (single) *), <<204528656, -28>> (* 0.761928605 (single) *),
    <<255302160, -28>> (* 0.951074653 (single) *), <<176520560, -27>> (* 1.31518067 (single) *), <<258847040, -27>> (* 1.92856069 (single) *),
    <<197132912, -26>> (* 2.93750934 (single) *), <<154179072, -25>> (* 4.5948944 (single) *), <<245956368, -25>> (* 7.33007122 (single) *),
    <<199170928, -24>> (* 11.8715125 (single) *), <<163229840, -23>> (* 19.4585137 (single) *), <<135083376, -22>> (* 32.2063865 (single) *),
    <<225391376, -22>> (* 53.7374919 (single) *), <<189318064, -21>> (* 90.273886 (single) *)>>,
  <<
    <<254869392, -27>> (* 1.89892491 (single) *), <<255153744, -28>> (* 0.950521794 (single) *), <<154495024, -27>> (* 1.15107758 (single) *),
    <<234913120, -27>> (* 1.7502391 (single) *), <<198150784, -26>> (* 2.95267681 (single) *), <<177362032, -25>> (* 5.28580039 (single) *),
    <<164961744, -24>> (* 9.83248571 (single) *), <<157598032, -23>> (* 18.7871486 (single) *), <<153573120, -22>> (* 36.6146861 (single) *),
    <<151944800, -21>> (* 72.4529239 (single) *), <<152156720, -20>> (* 145.107957 (single) *), <<153867328, -19>> (* 293.478639 (single) *),
    <<156863088, -18>> (* 598.385181 (single) *), <<161011472, -17>> (* 1228.42001 (single) *), <<166234016, -16>> (* 2536.52975 (single) *)>>,
  <<
    <<134727648, -26>> (* 2.00759839 (single) *), <<167565088, -27>> (* 1.24845723 (single) *), <<258534832, -27>> (* 1.92623465 (single) *),
    <<251744784, -26>> (* 3.75128964 (single) *), <<136230064, -24>> (* 8.11994455 (single) *), <<156579424, -23>> (* 18.6657213 (single) *),
    <<187082416, -22>> (* 44.6039248 (single) *), <<229657456, -21>> (* 109.509205 (single) *), <<143800640, -19>> (* 274.277954 (single) *),
    <<182861120, -18>> (* 697.5598 (single) *), <<235368096, -17>> (* 1795.71601 (single) *), <<152973536, -15>> (* 4668.38171 (single) *),
    <<200470736, -14>> (* 12235.7624 (single) *), <<264521136, -13>> (* 32290.178 (single) *), <<175540384, -11>> (* 85713.076 (single) *),
    <<234160320, -10>> (* 228672.189 (single) *), <<156865856, -8>> (* 612757.271 (single) *)>>,
  <<
    <<144721312, -26>> (* 2.15651564 (single) *), <<240492080, -27>> (* 1.79180564 (single) *), <<256808928, -26>> (* 3.82675128 (single) *),
    <<174260320, -24>> (* 10.3867246 (single) *), <<263430096, -23>> (* 31.403314 (single) *), <<211652352, -21>> (* 100.923703 (single) *),
    <<176856400, -19>> (* 337.326828 (single) *), <<151874160, -17>> (* 1158.70793 (single) *), <<266141088, -16>> (* 4060.99074 (single) *),
    <<236814368, -14>> (* 14454.0018 (single) *), <<213306000, -12>> (* 52076.661 (single) *), <<194041504, -10>> (* 189493.659 (single) *),
    <<177967248, -8>> (* 695184.576 (single) *), <<164351618, -6>> (* 2567994.04 *), <<152670751, -4>> (* 9541921.96 *),
    <<142539709, -2>> (* 35634927.4 *), <<267338596, -1>> (* 133669298 *), <<251676093, 1>> (* 503352186 *),
    <<237746965, 3>> (* 1901975720 *), <<225278593, 5>> (* 7208915010 *)>>,
  <<
    <<155566576, -26>> (* 2.31812262 (single) *), <<175618544, -26>> (* 2.61692015 (single) *), <<265010720, -25>> (* 7.89793507 (single) *),
    <<255872656, -23>> (* 30.5023971 (single) *), <<137874048, -20>> (* 131.486936 (single) *), <<158068832, -18>> (* 602.984763 (single) *),
    <<188548688, -16>> (* 2877.02461 (single) *), <<231186752, -14>> (* 14110.5199 (single) *), <<144632704, -11>> (* 70621.4408 (single) *),
    <<183796368, -9>> (* 358977.266 (single) *), <<236446497, -7>> (* 1847238.26 *), <<153608246, -4>> (* 9600515.41 *),
    <<201230708, -2>> (* 50307677 *), <<265444188, 0>> (* 265444188 *), <<176107790, 3>> (* 1408862320 *),
    <<234865247, 5>> (* 7515687930 *)>>,
  <<
    <<166000224, -26>> (* 2.47359617 (single) *), <<250156624, -26>> (* 3.72762424 (single) *), <<261848608, -24>> (* 15.607393 (single) *),
    <<176430272, -21>> (* 84.1285084 (single) *), <<265804480, -19>> (* 506.981819 (single) *), <<213141232, -16>> (* 3252.27705 (single) *),
    <<177874880, -13>> (* 21713.2424 (single) *), <<152613936, -10>> (* 149037.045 (single) *), <<267263828, -8>> (* 1043999.33 *),
    <<237695193, -5>> (* 7427974.81 *), <<214015358, -2>> (* 53503839.6 *), <<194624943, 1>> (* 389249886 *),
    <<178455521, 4>> (* 2855288350 *), <<164766226, 7>> (* 21090077000 *), <<153027180, 10>> (* 156699833000 *),
    <<142849394, 13>> (* 1170222240000 *), <<267881723, 15>> (* 8777948320000 *), <<252156228, 18>> (* 66101242700000 *),
    <<238174463, 21>> (* 499488053000000 *), <<225661654, 24>> (* 3785974330000000 *)>>>>
ElkKkcCoef == <<
  <<213540864, -27>> (* 1.59100345 (single) *), <<223338704, -29>> (* 0.416000743 (single) *), <<263916624, -30>> (* 0.245791514 (single) *),
  <<192716768, -30>> (* 0.179481482 (single) *), <<155215888, -30>> (* 0.144556057 (single) *), <<264572112, -31>> (* 0.123200993 (single) *),
  <<233944320, -31>> (* 0.108938811 (single) *), <<212286080, -31>> (* 0.0988534098 (single) *), <<196365104, -31>> (* 0.0914396292 (single) *),
  <<184345568, -31>> (* 0.0858425915 (single) *), <<175108224, -31>> (* 0.0815411187 (single) *)>>
ElkNomeCoef == <<
  <<134217728, -31>> (* 1 (single) / 2^4 *), <<134217728, -32>> (* 1 (single) / 2^5 *),
  <<176160768, -33>> (* 21 (single) / 2^10 *), <<260046848, -34>> (* 31 (single) / 2^11 *),
  <<205029376, -34>> (* 6257 (single) / 2^19 *), <<168640512, -34>> (* 10293 (single) / 2^20 *),
  <<142860800, -34>> (* 279025 (single) / 2^25 *), <<247361024, -35>> (* 483127 (single) / 2^26 *),
  <<217753344, -35>> (* 435506703 (single) / 2^36 *), <<194239392, -35>> (* 776957575 (single) / 2^37 *),
  <<175133168, -35>> (* 22417045500 (single) / 2^42 *), <<159315120, -35>> (* 40784671900 (single) / 2^43 *),
  <<146013344, -35>> (* 9569130090000 (single) / 2^51 *), <<134678688, -35>> (* 17652604500000 (single) / 2^52 *)>>

(***************************************************************************)
(* elk: the complete elliptic integral of the first kind K(m), mc = 1 - m, *)
(* of elliptic_functions.cpp, with its saved variables.                    *)
(***************************************************************************)

(* The saved variables before the first call: first is .TRUE. by its       *)
(* initialiser, the others hold whatever the storage holds (g).            *)
ElkSaveInit(g) ==
  [first |-> TRUE, mcold |-> g, PIHALF |-> g, PIINV |-> g, elkold |-> g,
   TINY |-> g]

(* if(first) { ... }: atan(1.0)*2.0 is a default REAL expression.          *)
ElkPihalf == <<210828720, -27>> (* single(single(atan(1.0)) * 2.0) *)

ElkFirstBlock(sv) ==
  [first |-> FALSE, mcold |-> One, PIHALF |-> ElkPihalf,
   PIINV |-> FDiv(Half, ElkPihalf), elkold |-> ElkPihalf,
   TINY |-> <<146783916, -356>> (* 1.0e-99 *)]

(* Index of the interval of m used for mc >= 0.1: the first i with         *)
(* m <= ElkUpper[i], or the last interval.                                 *)
RECURSIVE ElkInterval(_, _)
ElkInterval(m, i) ==
  IF i > Len(ElkUpper) THEN i
  ELSE IF FLe(m, ElkUpper[i]) THEN i
  ELSE ElkInterval(m, i + 1)

ElkLogConst == <<186065280, -27>> (* 1.38629436 (single) *)

(* Which branch of the if-chain a call takes, given the saved variables    *)
(* it reads.                                                               *)
(* The cache test with the tolerance 1.11 in place of 1.11d-16.            *)
ElkCacheHitWide(mc, sv) ==
  FLt(FAbs(FSub(mc, sv.mcold)), FMul(<<148981678, -27>> (* 1.11 *), mc))

ElkCacheHit(mc, sv) ==
  FLt(FAbs(FSub(mc, sv.mcold)), FMul(<<268381532, -81>> (* 1.11e-16 *), mc))

ElkBranch(mc, sv) ==
  Let([m \in {FSub(One, mc)} |->
  IF FLt(FAbs(m), <<241785165, -81>> (* 1.0e-16 *)) THEN "pihalf"
      ELSE IF ElkCacheHit(mc, sv) THEN "cache"
      ELSE IF FLt(mc, sv.TINY) THEN "tiny"
      ELSE IF FLt(mc, <<268381532, -81>> (* 1.11e-16 *)) THEN "log"
      ELSE IF FLt(mc, <<214748368, -31>> (* 0.1 (single) *)) THEN "nome"
      ELSE "poly"])

(* The value assigned to elk by the if-chain.                              *)
ElkValue(mc, sv) ==
  Let([m \in {FSub(One, mc)},
       br \in {ElkBranch(mc, sv)} |->
  IF br = "pihalf" THEN sv.PIHALF
      ELSE IF br = "cache" THEN sv.elkold
      ELSE IF br = "tiny" THEN FSub(ElkLogConst, FMul(Half, FLog(sv.TINY)))
      ELSE IF br = "log" THEN FSub(ElkLogConst, FMul(Half, FLog(mc)))
      ELSE IF br = "nome" THEN
        Let([nome \in {FMul(mc, Horner(ElkNomeCoef, mc))},
             mx \in {FSub(mc, <<214748368, -32>> (* 0.05 (single) *))} |->
        Let([kkc \in {Horner(ElkKkcCoef, mx)} |->
        FMul(FMul(FNeg(kkc), sv.PIINV), FLog(nome))])])
      ELSE
        Let([i \in {ElkInterval(m, 1)} |->
        Let([mx \in {FSub(m, ElkCentre[i])} |->
        Horner(ElkCoef[i], mx)])])])

(* The operand of log in the branch a call takes; One where the branch     *)
(* evaluates no logarithm.                                                 *)
ElkLogArg(mc, sv) ==
  Let([br \in {ElkBranch(mc, sv)} |->
  IF br = "tiny" THEN sv.TINY
      ELSE IF br = "log" THEN mc
      ELSE IF br = "nome" THEN FMul(mc, Horner(ElkNomeCoef, mc))
      ELSE One])

(* The polynomial a call selects, 0 outside the polynomial branch, and the *)
(* centre it expands about.                                                *)
ElkSelected(mc, sv) ==
  IF ElkBranch(mc, sv) = "poly" THEN ElkInterval(FSub(One, mc), 1) ELSE 0

ElkCentreOf(mc, sv) ==
  IF ElkBranch(mc, sv) = "poly" THEN ElkCentre[ElkInterval(FSub(One, mc), 1)]
  ELSE IF ElkBranch(mc, sv) = "nome" THEN <<214748368, -32>> (* 0.05 (single) *)
  ELSE Zero

(* One whole call of elk: the value returned and the saved variables it    *)
(* leaves.                                                                 *)
Elk(mc, save) ==
  Let([sv \in {IF save.first THEN ElkFirstBlock(save) ELSE save} |->
  Let([v \in {ElkValue(mc, sv)} |->
  [ret |-> v, save |-> [sv EXCEPT !.mcold = mc, !.elkold = v]]])])

(***************************************************************************)
(* scd2: sn, cn, dn for 0 <= u < K/2 by conditional duplication.           *)
(***************************************************************************)
MaxHalvings == 20

(* do n=0,20: if(u0 < uT) goto 1; u0=u0*0.5.  The pair <<u0, n>> at        *)
(* label 1; n is 21 when the loop ran to its end.                          *)
RECURSIVE Scd2Halve(_, _, _)
Scd2Halve(u0, uT, n) ==
  IF n > MaxHalvings \/ FLt(u0, uT) THEN <<u0, n>>
  ELSE Scd2Halve(FMul(u0, Half), uT, n + 1)

(* The Maclaurin series of b = 1 - cn at the reduced argument.             *)
Scd2Series(u0, m) ==
  Let([B10 \in {<<178956976, -32>> (* single(1.0 / 24) *)},
       B11 \in {<<178956976, -30>> (* single(1.0 / 6) *)},
       B20 \in {<<190887440, -37>> (* single(1.0 / 720) *)},
       B21 \in {<<262470224, -32>> (* single(11 / 180) *)},
       B22 \in {<<190887440, -33>> (* single(1.0 / 45) *)},
       v \in {FMul(u0, u0)} |->
  Let([in3 \in {FAdd(B20, FMul(m, FAdd(B21, FMul(m, B22))))} |->
  Let([in2 \in {FSub(FAdd(B10, FMul(m, B11)), FMul(v, in3))} |->
  FMul(v, FSub(Half, FMul(v, in2)))])])])

(* uA and uT of a call.                                                    *)
Scd2UA(mc) == FAdd(<<236584240, -27>> (* 1.76269 (single) *), FMul(mc, <<156171728, -27>> (* 1.16357 (single) *)))

Scd2UT(m) == FSub(<<179254755, -35>> (* 0.005217 *), FMul(m, <<147265838, -36>> (* 0.002143 *)))

(* The test without the factor 2.0.                                        *)
Scd2TestPlain(a, b, m) ==
  FLt(FMul(a, a), FMul(m, FMul(b, FSub(FMul(a, Two), b))))

(* y=b*(a*2.0-b); z=a*a; my=m*y; z < my*2.0                                *)
Scd2Test(a, b, m) ==
  FLt(FMul(a, a), FMul(FMul(m, FMul(b, FSub(FMul(a, Two), b))), Two))

(* One step on the pair (a, b): b=(y*2.0)*(z-my); a=z*z-my*y               *)
Scd2Std(a, b, m) ==
  Let([y \in {FMul(b, FSub(FMul(a, Two), b))},
       z \in {FMul(a, a)} |->
  Let([my \in {FMul(m, y)} |->
  [a |-> FSub(FMul(z, z), FMul(my, y)),
       b |-> FMul(FMul(y, Two), FSub(z, my))]])])

(* One step after label 2 on the pair (c, a); x is not declared and so is  *)
(* a default REAL.                                                         *)
Scd2Alt(c, a, m, mc) ==
  Let([x \in {ToSingle(FMul(c, c))},
       z \in {FMul(a, a)} |->
  Let([w \in {FSub(FMul(FMul(m, x), x), FMul(FMul(mc, z), z))},
       xz \in {FMul(x, z)} |->
  [c |-> FAdd(FMul(FMul(mc, Two), xz), w),
       a |-> FSub(FMul(FMul(m, Two), xz), w)]])])

(* The duplication steps j..n on the pair (a, b).  With test = TRUE the    *)
(* step leaves for label 2 when z < my*2.0; the result tells at which j.   *)
RECURSIVE Scd2Dup(_, _, _, _, _, _)
Scd2Dup(a, b, m, j, n, test) ==
  IF j > n \/ {a, b} = {NaN} THEN [a |-> a, b |-> b, j |-> j, label2 |-> FALSE]
  ELSE IF test /\ Scd2Test(a, b, m)
  THEN [a |-> a, b |-> b, j |-> j, label2 |-> TRUE]
  ELSE Scd2Dup(Scd2Std(a, b, m).a, Scd2Std(a, b, m).b, m, j + 1, n, test)

(* The steps after label 2, i = j..n, on the pair (c, a).                  *)
RECURSIVE Scd2Comp(_, _, _, _, _, _)
Scd2Comp(c, a, m, mc, i, n) ==
  IF i > n \/ {c, a} = {NaN} THEN <<c, a>>
  ELSE Scd2Comp(Scd2Alt(c, a, m, mc).c, Scd2Alt(c, a, m, mc).a, m, mc,
                i + 1, n)

(* The values returned after the first loop, from the pair (a, b), and     *)
(* after the second, from the pair (c, a).                                 *)
Scd2End1(a, b0, m) ==
  Let([b \in {FDiv(b0, a)} |->
  Let([y \in {FMul(b, FSub(Two, b))} |->
  [s |-> FSqrt(y), c |-> FSub(One, b), d |-> FSqrt(FSub(One, FMul(m, y)))]])])

Scd2End2(c0, a, m, mc) ==
  Let([c \in {FDiv(c0, a)} |->
  Let([x \in {ToSingle(FMul(c, c))} |->
  [s |-> FSqrt(FSub(One, x)), c |-> c, d |-> FSqrt(FAdd(mc, FMul(m, x)))]])])

Scd2(u, mc) ==
  Let([m \in {FSub(One, mc)} |->
  Let([h \in {Scd2Halve(u, Scd2UT(m), 0)} |->
  Let([n \in {h[2]},
       b0 \in {Scd2Series(h[1], m)} |->
  Let([r \in {Scd2Dup(One, b0, m, 1, n, ~FLt(u, Scd2UA(mc)))} |->
  Let([ca \in {Scd2Comp(FSub(r.a, r.b), r.a, m, mc, r.j, n)} |->
  Let([v \in {IF r.label2 THEN Scd2End2(ca[1], ca[2], m, mc)
           ELSE Scd2End1(r.a, r.b, m)} |->
  [s |-> v.s, c |-> v.c, d |-> v.d, n |-> n, label2 |-> r.label2]])])])])])])

(***************************************************************************)
(* Gscd: sn, cn, dn for any u, by reduction to an octant of the period.    *)
(***************************************************************************)

(* static_cast<double>(static_cast<int>(q)): the truncated quotient when   *)
(* it fits a 32-bit int; otherwise the conversion is undefined and the     *)
(* build yields ov.                                                        *)
IntFits(q) == IsFinite(q) /\ (q = Zero \/ q[2] <= 3)

IntCast(q, ov) == IF IntFits(q) THEN FromInt(TruncInt(q)) ELSE ov

(* The octant of the reduced argument: 1..8 for the branches of the        *)
(* if-chain, in order.                                                     *)
Octant(ux, k) ==
  IF FLt(ux, FMul(k, Half)) THEN 1
  ELSE IF FLt(ux, k) THEN 2
  ELSE IF FLt(ux, FMul(k, <<201326592, -27>> (* 1.5 *))) THEN 3
  ELSE IF FLt(ux, FMul(k, Two)) THEN 4
  ELSE IF FLt(ux, FMul(k, <<167772160, -26>> (* 2.5 *))) THEN 5
  ELSE IF FLt(ux, FMul(k, <<201326592, -26>> (* 3 *))) THEN 6
  ELSE IF FLt(ux, FMul(k, <<234881024, -26>> (* 3.5 *))) THEN 7
  ELSE 8

(* The argument handed to scd2 in each octant.                             *)
OctantArg(o, ux, k) ==
  IF o = 1 THEN ux
  ELSE IF o = 2 THEN FSub(k, ux)
  ELSE IF o = 3 THEN FSub(ux, k)
  ELSE IF o = 4 THEN FSub(FMul(k, Two), ux)
  ELSE IF o = 5 THEN FSub(ux, FMul(k, Two))
  ELSE IF o = 6 THEN FSub(FMul(k, <<201326592, -26>> (* 3 *)), ux)
  ELSE IF o = 7 THEN FSub(ux, FMul(k, <<201326592, -26>> (* 3 *)))
  ELSE FSub(FMul(k, <<134217728, -25>> (* 4 *)), ux)

(* The same with c = kc * s / d in the third octant.                       *)
OctantValueSlip(o, r, kc) ==
  Let([cd \in {FDiv(r.c, r.d)},
       ksd \in {FDiv(FMul(kc, r.s), r.d)},
       nksd \in {FDiv(FMul(FNeg(kc), r.s), r.d)},
       kd \in {FDiv(kc, r.d)} |->
  IF o = 1 THEN [s |-> r.s, c |-> r.c, d |-> r.d]
      ELSE IF o = 2 THEN [s |-> cd, c |-> ksd, d |-> kd]
      ELSE IF o = 3 THEN [s |-> cd, c |-> ksd, d |-> kd]
      ELSE IF o = 4 THEN [s |-> r.s, c |-> FNeg(r.c), d |-> r.d]
      ELSE IF o = 5 THEN [s |-> FNeg(r.s), c |-> FNeg(r.c), d |-> r.d]
      ELSE IF o = 6 THEN [s |-> FDiv(FNeg(r.c), r.d), c |-> nksd, d |-> kd]
      ELSE IF o = 7 THEN [s |-> FDiv(FNeg(r.c), r.d), c |-> ksd, d |-> kd]
      ELSE [s |-> FNeg(r.s), c |-> r.c, d |-> r.d]])

(* The reconstruction of (s, c, d) from scd2's result r in each octant.    *)
OctantValue(o, r, kc) ==
  Let([cd \in {FDiv(r.c, r.d)},
       ksd \in {FDiv(FMul(kc, r.s), r.d)},
       nksd \in {FDiv(FMul(FNeg(kc), r.s), r.d)},
       kd \in {FDiv(kc, r.d)} |->
  IF o = 1 THEN [s |-> r.s, c |-> r.c, d |-> r.d]
      ELSE IF o = 2 THEN [s |-> cd, c |-> ksd, d |-> kd]
      ELSE IF o = 3 THEN [s |-> cd, c |-> nksd, d |-> kd]
      ELSE IF o = 4 THEN [s |-> r.s, c |-> FNeg(r.c), d |-> r.d]
      ELSE IF o = 5 THEN [s |-> FNeg(r.s), c |-> FNeg(r.c), d |-> r.d]
      ELSE IF o = 6 THEN [s |-> FDiv(FNeg(r.c), r.d), c |-> nksd, d |-> kd]
      ELSE IF o = 7 THEN [s |-> FDiv(FNeg(r.c), r.d), c |-> ksd, d |-> kd]
      ELSE [s |-> FNeg(r.s), c |-> r.c, d |-> r.d]])

(* Gscd without its last statement.                                        *)
GscdSignKept(u, s) == s

(* if (u < 0.0) s = -s: the only use of the sign of u.                     *)
GscdSign(u, s) == IF FLt(u, Zero) THEN FNeg(s) ELSE s

(* One whole call of Gscd: the triple returned, the saved variables of elk *)
(* it leaves, and the path it took: the octant, the reduced argument ux,   *)
(* the K it was reduced with, the argument core handed to scd2, the triple *)
(* raw that scd2 returned and s before the sign of u is given to it (pre). *)
Gscd(u, mc, save, ov) ==
  Let([kc \in {FSqrt(mc)},
       ux0 \in {FAbs(u)},
       e \in {Elk(mc, save)} |->
  Let([direct \in {FLt(ux0, <<210721832, -28>> (* 0.785 *))},
       k \in {e.ret} |->
  Let([k4 \in {FMul(k, <<134217728, -25>> (* 4 *))} |->
  Let([q \in {FDiv(ux0, k4)} |->
  Let([ux \in {FSub(ux0, FMul(k4, IntCast(q, ov)))} |->
  Let([o \in {Octant(ux, k)} |->
  Let([core \in {IF direct THEN ux0 ELSE OctantArg(o, ux, k)} |->
  Let([r \in {Scd2(core, mc)} |->
  Let([v \in {IF direct THEN [s |-> r.s, c |-> r.c, d |-> r.d]
           ELSE OctantValue(o, r, kc)} |->
  [s |-> GscdSign(u, v.s), c |-> v.c, d |-> v.d,
       save |-> IF direct THEN save ELSE e.save,
       octant |-> IF direct THEN 0 ELSE o,
       overflow |-> ~direct /\ ~IntFits(q),
       halvings |-> r.n, label2 |-> r.label2,
       core |-> core, ux |-> IF direct THEN ux0 ELSE ux, k |-> k,
       raw |-> <<r.s, r.c, r.d>>, pre |-> v.s]])])])])])])])])])

(***************************************************************************)
(* BulirschCel: Bulirsch's general complete elliptic integral cel.         *)
(***************************************************************************)
CelCa == <<225179981, -51>> (* 0.0000001 *)
CelKcNearly0 == <<188894659, -74>> (* 1.0e-14 *)

(* The entry code without the undefined case.                              *)
CelNeverUndefined(kc0, b0) == FALSE

(* kc == 0.0 with b != 0.0: "cel is undefined".                            *)
CelUndefined(kc0, b0) == FEq(kc0, Zero) /\ ~FEq(b0, Zero)

(* The code before the loop.  undefined: kc = 0 with b # 0, the call       *)
(* returns NaN at once.  Otherwise the variables on entry to the loop.     *)
CelEntry(kc0, nc, a0, b0) ==
  IF CelUndefined(kc0, b0)
  THEN [undefined |-> TRUE, kc |-> kc0, e |-> kc0, m |-> One, p |-> nc,
        a |-> a0, b |-> b0]
  ELSE Let([kc \in {FAbs(IF FEq(kc0, Zero) THEN CelKcNearly0 ELSE kc0)} |->
       IF FGt(nc, Zero)
           THEN Let([p \in {FSqrt(nc)} |->
                [undefined |-> FALSE, kc |-> kc, e |-> kc, m |-> One,
                     p |-> p, a |-> a0, b |-> FDiv(b0, p)]])
           ELSE Let([f0 \in {FMul(kc, kc)},
                     g \in {FSub(One, nc)} |->
                Let([f \in {FSub(f0, nc)},
                     q \in {FMul(FSub(b0, FMul(a0, nc)), FSub(One, f0))},
                     a \in {FDiv(FSub(a0, b0), g)} |->
                Let([p \in {FSqrt(FDiv(f, g))} |->
                [undefined |-> FALSE, kc |-> kc, e |-> kc, m |-> One,
                     p |-> p, a |-> a,
                     b |-> FSub(FMul(a, p), FDiv(q, FMul(FMul(g, g), p)))]])])])])

(* One pass of the body of for (;;): the variables after it and whether    *)
(* it left the loop by break.                                              *)
CelPass(v) ==
  Let([a \in {FAdd(FDiv(v.b, v.p), v.a)},
       g \in {FDiv(v.e, v.p)},
       m \in {FAdd(v.kc, v.m)},
       kc1 \in {FSqrt(v.e)} |->
  Let([b1 \in {FAdd(FMul(v.a, g), v.b)},
       p \in {FAdd(g, v.p)},
       stop \in {FLe(FAbs(FSub(v.m, v.kc)), FMul(v.m, CelCa))},
       kc \in {FAdd(kc1, kc1)} |->
  Let([b \in {FAdd(b1, b1)} |->
  IF stop
      THEN [v EXCEPT !.a = a, !.b = b, !.p = p, !.m = m] @@ [break |-> TRUE]
      ELSE [v EXCEPT !.a = a, !.b = b, !.p = p, !.m = m, !.kc = kc,
                     !.e = FMul(kc, m)] @@ [break |-> FALSE]])])])

(* The returned expression without its factor pi / 2.                      *)
CelRatio(v) == FDiv(FAdd(FMul(v.a, v.m), v.b), FMul(v.m, FAdd(v.m, v.p)))

(* return (pi / 2) * (a * m + b) / (m * (m + p))                           *)
CelValue(v) ==
  FDiv(FMul(PiHalf, FAdd(FMul(v.a, v.m), v.b)), FMul(v.m, FAdd(v.m, v.p)))

(* The loop, for at most fuel passes: the value returned and the number of *)
(* passes, or returned = FALSE when the loop is still running.             *)
RECURSIVE CelLoop(_, _, _)
CelLoop(v, passes, fuel) ==
  IF fuel = 0 THEN [returned |-> FALSE, value |-> NaN, passes |-> passes]
  ELSE Let([w \in {CelPass(v)} |->
       IF w.break
           THEN [returned |-> TRUE, value |-> CelValue(w), passes |-> passes + 1]
           ELSE CelLoop([x \in DOMAIN v |-> w[x]], passes + 1, fuel - 1)])

MaxCelPasses == 40

BulirschCel(kc, nc, a, b) ==
  Let([v \in {CelEntry(kc, nc, a, b)} |->
  IF v.undefined THEN [returned |-> TRUE, value |-> NaN, passes |-> 0]
      ELSE CelLoop(v, 0, MaxCelPasses)])

(* The series of FukushimaEllipticBD near mc = 0 (K1..K7, D1..D7) and   *)
(* near m = 0 (B1..B8, D1..D8), lowest degree first.                    *)
BdK == <<
  <<134217728, -29>> (* 1.0/4.0 *), <<150994944, -30>> (* 9.0/64.0 *), <<209715200, -31>> (* 25.0/256.0 *), <<160563200, -31>> (* 1225.0/16384.0 *),
  <<260112384, -32>> (* 3969.0/65536.0 *), <<218566656, -32>> (* 53361.0/1048576.0 *), <<188457984, -32>> (* 184041.0/4194304.0 *)>>
BdB == <<
  <<134217728, -28>> (* 1.0/2.0 *), <<134217728, -31>> (* 1.0/16.0 *), <<201326592, -33>> (* 3.0/128.0 *), <<209715200, -34>> (* 25.0/2048.0 *),
  <<256901120, -35>> (* 245.0/32768.0 *), <<173408256, -35>> (* 1323.0/262144.0 *), <<249790464, -36>> (* 7623.0/2097152.0 *), <<188457984, -36>> (* 184041.0/67108864.0 *)>>
BdD == <<
  <<134217728, -28>> (* 1.0/2.0 *), <<201326592, -30>> (* 3.0/16.0 *), <<251658240, -31>> (* 15.0/128.0 *), <<183500800, -31>> (* 175.0/2048.0 *),
  <<144506880, -31>> (* 2205.0/32768.0 *), <<238436352, -32>> (* 14553.0/262144.0 *), <<202954752, -32>> (* 99099.0/2097152.0 *), <<176679360, -32>> (* 2760615.0/67108864.0 *)>>
(* The minimax polynomials in mx = mc - 0.05 of the branch 0.01 <= mc    *)
(* < 0.1: (K'-1)/(pi/2) and (K'-E')/(pi/2).                            *)
BdDkkcCoef == <<
  <<221006243, -34>> (* 0.0128642565 *), <<142181831, -29>> (* 0.264834298 *), <<168014543, -30>> (* 0.156475737 *),
  <<245374616, -31>> (* 0.11426146 *), <<197627001, -31>> (* 0.0920272441 *), <<168431841, -31>> (* 0.0784321883 *),
  <<148933577, -31>> (* 0.0693526014 *), <<135145516, -31>> (* 0.0629320352 *), <<250019819, -32>> (* 0.0582122759 *),
  <<234716057, -32>> (* 0.0546490911 *), <<222954708, -32>> (* 0.0519106884 *), <<213818279, -32>> (* 0.0497834477 *),
  <<206689953, -32>> (* 0.0481237549 *)>>
BdDddcCoef == <<
  <<218905501, -33>> (* 0.0254839544 *), <<139498884, -28>> (* 0.519673843 *), <<221673474, -30>> (* 0.206449511 *),
  <<146146485, -30>> (* 0.136109521 *), <<224584140, -31>> (* 0.10458014 *), <<186285893, -31>> (* 0.0867461291 *),
  <<161842533, -31>> (* 0.0753638026 *), <<145052739, -31>> (* 0.0675454459 *), <<265898834, -32>> (* 0.0619093968 *),
  <<247865632, -32>> (* 0.0577107151 *), <<234127990, -32>> (* 0.0545121709 *), <<223511317, -32>> (* 0.052040284 *),
  <<215243681, -32>> (* 0.0501153251 *)>>
(* The minimax polynomials of FukushimaEllipticBD for m > 0.01: for each *)
(* interval its upper bound (the last interval has none), the centre in  *)
(* mc and the coefficients of B and of D in mx = centre - mc.            *)
BdUpper == <<<<214748364, -31>> (* 0.1 *), <<214748364, -30>> (* 0.2 *), <<161061273, -29>> (* 0.3 *), <<214748364, -29>> (* 0.4 *), <<134217728, -28>> (* 0.5 *), <<161061273, -28>> (* 0.6 *), <<187904819, -28>> (* 0.7 *), <<214748364, -28>> (* 0.8 *), <<228170137, -28>> (* 0.85 *)>>
BdCentre == <<<<255013683, -28>> (* 0.95 *), <<228170137, -28>> (* 0.85 *), <<201326592, -28>> (* 0.75 *), <<174483046, -28>> (* 0.65 *), <<147639500, -28>> (* 0.55 *), <<241591910, -29>> (* 0.45 *), <<187904819, -29>> (* 0.35 *), <<134217728, -29>> (* 0.25 *), <<187904819, -30>> (* 0.175 *), <<134217728, -30>> (* 0.125 *)>>
BdBCoef == <<
  <<
    <<212171763, -28>> (* 0.790401413 *), <<219056788, -31>> (* 0.102006266 *), <<171276404, -32>> (* 0.0398783955 *),
    <<186720579, -33>> (* 0.0217371363 *), <<239847804, -34>> (* 0.0139609797 *), <<169952178, -34>> (* 0.00989251882 *),
    <<257169323, -35>> (* 0.0074846124 *), <<203912184, -35>> (* 0.00593462566 *), <<167477921, -35>> (* 0.00487424905 *),
    <<141376817, -35>> (* 0.00411460693 *), <<243985270, -36>> (* 0.00355045298 *), <<214351849, -36>> (* 0.00311922995 *)>>,
  <<
    <<215023259, -28>> (* 0.801024064 *), <<237716441, -31>> (* 0.110695344 *), <<203361318, -32>> (* 0.0473487467 *),
    <<244678851, -33>> (* 0.0284843672 *), <<174185073, -33>> (* 0.0202778114 *), <<137138355, -33>> (* 0.0159650058 *),
    <<230920122, -34>> (* 0.0134413202 *), <<203951945, -34>> (* 0.0118715657 *), <<186717064, -34>> (* 0.0108683636 *),
    <<175777329, -34>> (* 0.0102315872 *), <<169214590, -34>> (* 0.00984958554 *), <<165899233, -34>> (* 0.00965660634 *)>>,
  <<
    <<218130053, -28>> (* 0.812597772 *), <<260080922, -31>> (* 0.121109617 *), <<246073179, -32>> (* 0.0572933768 *),
    <<165396835, -32>> (* 0.0385094516 *), <<264427651, -33>> (* 0.0307834303 *), <<234424166, -33>> (* 0.0272905649 *),
    <<222619916, -33>> (* 0.0259163692 *), <<222025785, -33>> (* 0.0258472033 *), <<229702783, -33>> (* 0.0267409235 *),
    <<244506598, -33>> (* 0.0284643145 *), <<266248855, -33>> (* 0.0309954462 *), <<147679740, -32>> (* 0.0343843691 *),
    <<166378451, -32>> (* 0.038738002 *)>>,
  <<
    <<221546105, -28>> (* 0.825323557 *), <<143733352, -30>> (* 0.133862116 *), <<152495590, -31>> (* 0.0710112935 *),
    <<232694787, -32>> (* 0.0541784774 *), <<212393626, -32>> (* 0.0494517449 *), <<215702690, -32>> (* 0.0502221962 *),
    <<235119020, -32>> (* 0.0547429131 *), <<134746562, -31>> (* 0.0627462579 *), <<160352348, -31>> (* 0.074669881 *),
    <<196453618, -31>> (* 0.0914808451 *), <<246327309, -31>> (* 0.114705092 *), <<157379554, -30>> (* 0.146571132 *),
    <<204287045, -30>> (* 0.190257137 *)>>,
  <<
    <<225346081, -28>> (* 0.83947957 *), <<160971551, -30>> (* 0.14991644 *), <<195060096, -31>> (* 0.0908319358 *),
    <<172543939, -31>> (* 0.0803470334 *), <<183907150, -31>> (* 0.0856384405 *), <<218946104, -31>> (* 0.101954725 *),
    <<140203635, -30>> (* 0.130574811 *), <<189091385, -30>> (* 0.176105076 *), <<265037239, -30>> (* 0.246835164 *),
    <<191353933, -29>> (* 0.356424476 *), <<141466173, -28>> (* 0.527002562 *), <<213242343, -28>> (* 0.794389634 *),
    <<163311102, -27>> (* 1.21676253 *)>>,
  <<
    <<229638375, -28>> (* 0.855469615 *), <<183498260, -30>> (* 0.170896072 *), <<260565420, -31>> (* 0.121335229 *),
    <<137655723, -30>> (* 0.128201883 *), <<176831621, -30>> (* 0.164687281 *), <<254926611, -30>> (* 0.237418908 *),
    <<198217091, -29>> (* 0.369208104 *), <<162580277, -28>> (* 0.605658733 *), <<138741611, -27>> (* 1.03370556 *),
    <<244140501, -27>> (* 1.81898848 *), <<220075308, -26>> (* 3.27937765 *), <<202329478, -25>> (* 6.02988838 *),
    <<189075815, -24>> (* 11.2697968 *), <<179135182, -23>> (* 21.3545778 *)>>,
  <<
    <<234591129, -28>> (* 0.873920061 *), <<214548710, -30>> (* 0.199814057 *), <<185509961, -30>> (* 0.172769615 *),
    <<244927932, -30>> (* 0.228106913 *), <<198893568, -29>> (* 0.370468141 *), <<182340488, -28>> (* 0.679271252 *),
    <<180926636, -27>> (* 1.34800849 *), <<189761785, -26>> (* 2.82767097 *), <<207348546, -25>> (* 6.17946825 *),
    <<233802014, -24>> (* 13.935686 *), <<135135983, -22>> (* 32.2189292 *), <<159398154, -21>> (* 76.0069629 *),
    <<191177895, -20>> (* 182.321449 *), <<232529632, -19>> (* 443.515076 *), <<143111581, -17>> (* 1091.85472 *),
    <<177980431, -16>> (* 2715.76586 *)>>,
  <<
    <<240492082, -28>> (* 0.89590282 *), <<261069590, -30>> (* 0.243140003 *), <<146609714, -29>> (* 0.273081875 *),
    <<261069590, -29>> (* 0.486280007 *), <<145323900, -27>> (* 1.08274743 *), <<184109496, -26>> (* 2.74344529 *),
    <<253531174, -25>> (* 7.55581782 *), <<184985087, -23>> (* 22.0519408 *), <<140837191, -21>> (* 67.1564064 *),
    <<221535013, -20>> (* 211.272253 *), <<178756985, -18>> (* 681.903784 *), <<147256523, -16>> (* 2246.95623 *),
    <<246791662, -15>> (* 7531.48386 *), <<209784935, -13>> (* 25608.5126 *), <<180512250, -11>> (* 88140.7474 *),
    <<156960985, -9>> (* 306564.424 *), <<137732616, -7>> (* 1076036.07 *), <<243661984, -6>> (* 3807218.5 *),
    <<217062115, -4>> (* 13566382.2 *)>>,
  <<
    <<245865953, -28>> (* 0.915922052 *), <<158223509, -29>> (* 0.294714252 *), <<233955838, -29>> (* 0.435776709 *),
    <<143254371, -27>> (* 1.06732824 *), <<223327837, -26>> (* 3.32784411 *), <<199716985, -24>> (* 11.90406 *),
    <<194944489, -22>> (* 46.4783882 *), <<202118896, -20>> (* 192.7556 *), <<218978222, -18>> (* 835.335629 *),
    <<245309409, -16>> (* 3743.12454 *), <<141058681, -13>> (* 17219.0773 *), <<165692628, -11>> (* 80904.604 *),
    <<198045863, -9>> (* 386808.329 *), <<240190421, -7>> (* 1876487.67 *), <<147464958, -4>> (* 9216559.9 *)>>,
  <<
    <<250156628, -28>> (* 0.931906061 *), <<187071610, -29>> (* 0.348448029 *), <<178995225, -28>> (* 0.666809178 *),
    <<148362204, -26>> (* 2.21076913 *), <<159245392, -24>> (* 9.49176504 *), <<197522558, -22>> (* 47.0930479 *),
    <<268351618, -20>> (* 255.920046 *), <<193990430, -17>> (* 1480.02953 *), <<146703006, -14>> (* 8954.0409 *),
    <<229590966, -12>> (* 56052.4822 *), <<184522610, -9>> (* 360395.724 *), <<151522522, -6>> (* 2367539.41 *),
    <<253279192, -4>> (* 15829949.5 *), <<214831618, -1>> (* 107415809 *), <<184514636, 2>> (* 738058546 *),
    <<160188187, 5>> (* 5126022000 *), <<140372424, 8>> (* 35935340600 *), <<248035278, 10>> (* 253988125000 *),
    <<220725097, 13>> (* 1808180000000 *)>>>>
BdDCoef == <<
  <<
    <<214909973, -28>> (* 0.80060204 *), <<168574500, -29>> (* 0.313994477 *), <<221097526, -30>> (* 0.205913118 *),
    <<169376701, -30>> (* 0.157744346 *), <<140225396, -30>> (* 0.130595077 *), <<243328095, -31>> (* 0.113308474 *),
    <<217871233, -31>> (* 0.101454199 *), <<199541569, -31>> (* 0.0929187842 *), <<185897738, -31>> (* 0.0865653801 *),
    <<175509510, -31>> (* 0.0817279846 *), <<167483679, -31>> (* 0.0779906657 *), <<161233988, -31>> (* 0.0750804268 *)>>,
  <<
    <<223937625, -28>> (* 0.834232667 *), <<193539429, -29>> (* 0.360495281 *), <<140864009, -29>> (* 0.262379664 *),
    <<240221755, -30>> (* 0.223723944 *), <<221671649, -30>> (* 0.206447811 *), <<214543752, -30>> (* 0.19980944 *),
    <<214391293, -30>> (* 0.199667451 *), <<219212508, -30>> (* 0.204157558 *), <<228049306, -30>> (* 0.212387467 *),
    <<240463315, -30>> (* 0.223948914 *), <<256310867, -30>> (* 0.238708097 *), <<137818630, -29>> (* 0.256707203 *)>>,
  <<
    <<234385110, -28>> (* 0.873152581 *), <<225819840, -29>> (* 0.42062223 *), <<184807643, -29>> (* 0.344231061 *),
    <<177775686, -29>> (* 0.331133021 *), <<185369330, -29>> (* 0.345277285 *), <<202907849, -29>> (* 0.377945322 *),
    <<229446823, -29>> (* 0.427378012 *), <<265574870, -29>> (* 0.494671744 *), <<156413343, -28>> (* 0.582685115 *),
    <<186777176, -28>> (* 0.695799207 *), <<225490722, -28>> (* 0.840018401 *), <<137340773, -27>> (* 1.0232685 *),
    <<168558552, -27>> (* 1.25585908 *)>>,
  <<
    <<246699441, -28>> (* 0.919027039 *), <<134486742, -28>> (* 0.501002159 *), <<251701871, -29>> (* 0.46883127 *),
    <<138972854, -28>> (* 0.517714227 *), <<166656377, -28>> (* 0.620843391 *), <<210014342, -28>> (* 0.782364393 *),
    <<136783236, -27>> (* 1.01911453 *), <<182448224, -27>> (* 1.3593452 *), <<247727982, -27>> (* 1.8457173 *),
    <<170528435, -26>> (* 2.5410717 *), <<237391206, -26>> (* 3.53740465 *), <<166741904, -25>> (* 4.969296 *),
    <<236015930, -25>> (* 7.03382287 *), <<168108429, -24>> (* 10.0200432 *)>>,
  <<
    <<261564679, -28>> (* 0.974404366 *), <<164617185, -28>> (* 0.613246805 *), <<180146140, -28>> (* 0.671096669 *),
    <<233734165, -28>> (* 0.87072762 *), <<165026364, -27>> (* 1.22954223 *), <<245162901, -27>> (* 1.82660596 *),
    <<188370186, -26>> (* 2.80693453 *), <<148269965, -25>> (* 4.41878932 *), <<237673962, -25>> (* 7.08323605 *),
    <<193191120, -24>> (* 11.5150881 *), <<158809025, -23>> (* 18.9315111 *), <<263502927, -23>> (* 31.4119969 *),
    <<220287905, -22>> (* 52.5207294 *), <<185356474, -21>> (* 88.3848547 *), <<156831710, -20>> (* 149.566374 *),
    <<266671654, -20>> (* 254.317908 *)>>,
  <<
    <<140050198, -27>> (* 1.04345529 *), <<209279185, -28>> (* 0.779625721 *), <<138209679, -27>> (* 1.02974236 *),
    <<217706150, -27>> (* 1.62203722 *), <<187098809, -26>> (* 2.78798953 *), <<169395573, -25>> (* 5.04838148 *),
    <<158767452, -24>> (* 9.46327761 *), <<152517391, -23>> (* 18.1814899 *), <<149237448, -22>> (* 35.5809805 *),
    <<148130098, -21>> (* 70.6339354 *), <<148718045, -20>> (* 141.82858 *), <<150705930, -19>> (* 287.448751 *),
    <<153908775, -18>> (* 587.115384 *), <<158212480, -17>> (* 1207.06543 *), <<163550902, -16>> (* 2495.58872 *),
    <<169892001, -15>> (* 5184.69242 *), <<177229222, -14>> (* 10817.2133 *)>>,
  <<
    <<152159729, -27>> (* 1.13367833 *), <<140746503, -27>> (* 1.04864317 *), <<235346093, -27>> (* 1.75346504 *),
    <<236436790, -26>> (* 3.52318272 *), <<260029278, -25>> (* 7.74947641 *), <<150881278, -23>> (* 17.98645 *),
    <<181428462, -22>> (* 43.2559163 *), <<223727392, -21>> (* 106.681534 *), <<140560819, -19>> (* 268.098486 *),
    <<179207959, -18>> (* 683.624114 *), <<231145089, -17>> (* 1763.49708 *), <<150482935, -15>> (* 4592.37475 *),
    <<197483577, -14>> (* 12053.441 *), <<260887863, -13>> (* 31846.663 *), <<173304261, -11>> (* 84621.2213 *),
    <<231379377, -10>> (* 225956.423 *), <<155121028, -8>> (* 605941.517 *), <<208778571, -7>> (* 1631082.59 *)>>,
  <<
    <<169196588, -27>> (* 1.26061282 *), <<207858382, -27>> (* 1.54866563 *), <<238482716, -26>> (* 3.55366941 *),
    <<166101898, -24>> (* 9.90044467 *), <<254347347, -23>> (* 30.3205666 *), <<205898925, -21>> (* 98.1802586 *),
    <<172894983, -19>> (* 329.77101 *), <<148983772, -17>> (* 1136.65598 *), <<261739925, -16>> (* 3993.83433 *),
    <<233352880, -14>> (* 14242.7295 *), <<210512925, -12>> (* 51394.7572 *), <<191740622, -10>> (* 187246.702 *),
    <<176039191, -8>> (* 687653.092 *), <<162712673, -6>> (* 2542385.53 *), <<151260499, -4>> (* 9453781.21 *),
    <<141313452, -2>> (* 35328363 *), <<265186524, -1>> (* 132593262 *), <<249772484, 1>> (* 499544968 *),
    <<236051167, 3>> (* 1888409340 *), <<223758360, 5>> (* 7160267530 *), <<212682092, 7>> (* 27223307900 *)>>,
  <<
    <<188200173, -27>> (* 1.40220056 *), <<155840599, -26>> (* 2.32220589 *), <<250388485, -25>> (* 7.46215836 *),
    <<246919253, -23>> (* 29.4350689 *), <<134384548, -20>> (* 128.159092 *), <<154948259, -18>> (* 591.080703 *),
    <<185502677, -16>> (* 2830.54622 *), <<228028650, -14>> (* 13917.7643 *), <<142921943, -11>> (* 69786.1052 *),
    <<181879880, -9>> (* 355234.142 *), <<234242455, -7>> (* 1830019.18 *), <<152313772, -4>> (* 9519610.81 *),
    <<199683474, -2>> (* 49920868.7 *), <<263567700, 0>> (* 263567700 *), <<174955720, 3>> (* 1399645760 *),
    <<233435492, 5>> (* 7469935790 *), <<156412327, 8>> (* 40041555900 *), <<210413150, 10>> (* 215463066000 *)>>,
  <<
    <<206922143, -27>> (* 1.54169011 *), <<226772676, -26>> (* 3.37917621 *), <<250661401, -24>> (* 14.9405838 *),
    <<171793950, -21>> (* 81.9177392 *), <<260828065, -19>> (* 497.490054 *), <<210054938, -16>> (* 3205.18401 *),
    <<175778384, -13>> (* 21457.3223 *), <<151098383, -10>> (* 147557.015 *), <<264971594, -8>> (* 1035045.29 *),
    <<235901514, -5>> (* 7371922.33 *), <<212573775, -2>> (* 53143443.9 *), <<193441173, 1>> (* 386882347 *),
    <<177466150, 4>> (* 2839458400 *), <<163927040, 7>> (* 20982661200 *), <<152306420, 10>> (* 155961775000 *),
    <<142223659, 13>> (* 1165096220000 *), <<266785063, 15>> (* 8742012980000 *), <<251187341, 18>> (* 65847254600000 *),
    <<237312255, 21>> (* 497679873000000 *), <<224889434, 24>> (* 3773018630000000 *), <<213702259, 27>> (* 28682631900000000 *)>>>>
(* The Maclaurin series of q(mc) / mc, q Jacobi's nome.                  *)
NomeQSeries == <<
  <<134217728, -31>> (* 1 / 2^4 *), <<134217728, -32>> (* 1 / 2^5 *),
  <<176160768, -33>> (* 21 / 2^10 *), <<260046848, -34>> (* 31 / 2^11 *),
  <<205029376, -34>> (* 6257 / 2^19 *), <<168640512, -34>> (* 10293 / 2^20 *),
  <<142860800, -34>> (* 279025 / 2^25 *), <<247361024, -35>> (* 483127 / 2^26 *),
  <<217753351, -35>> (* 435506703 / 2^36 *), <<194239393, -35>> (* 776957575 / 2^37 *),
  <<175133167, -35>> (* 22417045500 / 2^42 *), <<159315124, -35>> (* 40784671900 / 2^43 *),
  <<146013337, -35>> (* 9569130090000 / 2^51 *), <<134678684, -35>> (* 17652604500000 / 2^52 *),
  <<249820219, -36>> (* 523910972000000 / 2^57 *), <<232816044, -36>> (* 976501268000000 / 2^58 *)>>

(***************************************************************************)
(* FukushimaEllipticBD: the complete integrals B(m) and D(m), mc = 1 - m.  *)
(***************************************************************************)

(* EllipticNomeQ<degree>: mc times the series truncated to degree terms.   *)
EllipticNomeQ(degree, mc) ==
  FMul(mc, Horner(SubSeq(NomeQSeries, 1, degree), mc))

RECURSIVE BdInterval(_, _)
BdInterval(m, i) ==
  IF i > Len(BdUpper) THEN i
  ELSE IF FLe(m, BdUpper[i]) THEN i
  ELSE BdInterval(m, i + 1)

BdBranch(mc) ==
  Let([m \in {FSub(One, mc)} |->
  IF FLt(m, <<268381532, -81>> (* 1.11e-16 *)) THEN "m0"
      ELSE IF FLt(mc, <<268381532, -81>> (* 1.11e-16 *)) THEN "log"
      ELSE IF FLt(mc, <<214748364, -31>> (* 0.1 *)) THEN "nome"
      ELSE IF FLe(m, <<171798691, -34>> (* 0.01 *)) THEN "series"
      ELSE "poly"])

FukushimaEllipticBD(mc) ==
  Let([m \in {FSub(One, mc)},
       br \in {BdBranch(mc)} |->
  IF br = "m0" THEN [b |-> PiQuarter, d |-> PiQuarter]
      ELSE IF br = "log"
      THEN [b |-> One,
            d |-> FSub(<<207390205, -29>> (* 0.386294361 *), FMul(Half, FLog(mc)))]
      ELSE IF br = "nome"
      THEN Let([nome \in {EllipticNomeQ(16, mc)},
                small \in {FLt(mc, <<171798691, -34>> (* 0.01 *))},
                mx \in {FSub(mc, <<214748364, -32>> (* 0.05 *))} |->
           Let([dkkc \in {IF small THEN FMul(mc, Horner(BdK, mc))
                       ELSE Horner(BdDkkcCoef, mx)},
                dddc \in {IF small THEN FMul(mc, Horner(SubSeq(BdD, 1, 7), mc))
                       ELSE Horner(BdDddcCoef, mx)},
                logq2 \in {FMul(<<-134217728, -28>> (* -0.5 *), FLog(nome))} |->
           Let([kkc \in {FAdd(One, dkkc)} |->
           Let([elk \in {FMul(kkc, logq2)},
                dele \in {FAdd(FDiv(FNeg(dkkc), kkc), FMul(logq2, dddc))} |->
           Let([elk1 \in {FSub(elk, One)} |->
           Let([delb \in {FDiv(FSub(dele, FMul(mc, elk1)), m)} |->
           [b |-> FAdd(One, delb), d |-> FSub(elk1, delb)]])])])])])])
      ELSE IF br = "series"
      THEN [b |-> FMul(PiHalf, Horner(BdB, m)),
            d |-> FMul(PiHalf, Horner(BdD, m))]
      ELSE Let([i \in {BdInterval(m, 1)} |->
           Let([mx \in {FSub(BdCentre[i], mc)} |->
           [b |-> Horner(BdBCoef[i], mx), d |-> Horner(BdDCoef[i], mx)]])])])

(***************************************************************************)
(* FukushimaEllipticBDJ(nc, mc): the complete integrals B, D and J.        *)
(***************************************************************************)
CompleteBDJ(nc, mc) ==
  Let([bd \in {FukushimaEllipticBD(mc)},
       jc \in {BulirschCel(FSqrt(mc), nc, Zero, One)} |->
  [b |-> bd.b, d |-> bd.d, j |-> jc.value, returned |-> jc.returned]])

(* The minimax polynomials of EllipticK for mc >= 0.1: for each interval *)
(* of m its upper bound (the last interval has none), the centre of the  *)
(* expansion and the coefficients, lowest degree first.                  *)
EllipticKUpper == <<<<214748364, -31>> (* 0.1 *), <<214748364, -30>> (* 0.2 *), <<161061273, -29>> (* 0.3 *), <<214748364, -29>> (* 0.4 *), <<134217728, -28>> (* 0.5 *), <<161061273, -28>> (* 0.6 *), <<187904819, -28>> (* 0.7 *), <<214748364, -28>> (* 0.8 *), <<228170137, -28>> (* 0.85 *)>>
EllipticKCentre == <<<<214748364, -32>> (* 0.05 *), <<161061273, -30>> (* 0.15 *), <<134217728, -29>> (* 0.25 *), <<187904819, -29>> (* 0.35 *), <<241591910, -29>> (* 0.45 *), <<147639500, -28>> (* 0.55 *), <<174483046, -28>> (* 0.65 *), <<201326592, -28>> (* 0.75 *), <<221459251, -28>> (* 0.825 *), <<234881024, -28>> (* 0.875 *)>>
EllipticKCoef == <<
  <<
    <<213540868, -27>> (* 1.59100345 *), <<223338697, -29>> (* 0.416000743 *), <<263916628, -30>> (* 0.245791514 *),
    <<192716773, -30>> (* 0.179481482 *), <<155215884, -30>> (* 0.144556057 *), <<264572117, -31>> (* 0.123200993 *),
    <<233944315, -31>> (* 0.108938811 *), <<212286080, -31>> (* 0.0988534098 *), <<196365108, -31>> (* 0.0914396292 *),
    <<184345560, -31>> (* 0.0858425915 *), <<175108218, -31>> (* 0.0815411187 *)>>,
  <<
    <<219480442, -27>> (* 1.63525673 *), <<252968541, -29>> (* 0.471190626 *), <<166284173, -29>> (* 0.30972841 *),
    <<135403305, -29>> (* 0.252208311 *), <<243444783, -30>> (* 0.226725623 *), <<231686047, -30>> (* 0.215774446 *),
    <<228823800, -30>> (* 0.213108771 *), <<231959505, -30>> (* 0.216029124 *), <<239719123, -30>> (* 0.223255831 *),
    <<251449398, -30>> (* 0.234180501 *), <<266886778, -30>> (* 0.248557682 *), <<143002981, -29>> (* 0.266363809 *),
    <<154473036, -29>> (* 0.287728452 *)>>,
  <<
    <<226257581, -27>> (* 1.68575035 *), <<145420035, -28>> (* 0.541731848 *), <<215566791, -29>> (* 0.401524438 *),
    <<198450291, -29>> (* 0.369642473 *), <<201896058, -29>> (* 0.376060715 *), <<217559359, -29>> (* 0.405235887 *),
    <<243360567, -29>> (* 0.453294381 *), <<139725740, -28>> (* 0.520518947 *), <<163591555, -28>> (* 0.609426039 *),
    <<194418008, -28>> (* 0.724263522 *), <<233810998, -28>> (* 0.871013847 *), <<141955765, -27>> (* 1.05765287 *)>>,
  <<
    <<234122773, -27>> (* 1.74435059 *), <<170420080, -28>> (* 0.634864275 *), <<144912884, -28>> (* 0.539842564 *),
    <<153516278, -28>> (* 0.571892705 *), <<179930980, -28>> (* 0.670295136 *), <<223495760, -28>> (* 0.83258659 *),
    <<144130705, -27>> (* 1.07385744 *), <<190869884, -27>> (* 1.42209146 *), <<257750004, -27>> (* 1.92038718 *),
    <<176667610, -26>> (* 2.63255254 *), <<245088935, -26>> (* 3.65210974 *), <<171660015, -25>> (* 5.11586713 *),
    <<242399901, -25>> (* 7.22408 *)>>,
  <<
    <<243455379, -27>> (* 1.81388393 *), <<204860073, -28>> (* 0.763163245 *), <<204528652, -28>> (* 0.761928605 *),
    <<255302157, -28>> (* 0.951074653 *), <<176520561, -27>> (* 1.31518067 *), <<258847034, -27>> (* 1.92856069 *),
    <<197132914, -26>> (* 2.93750934 *), <<154179071, -25>> (* 4.5948944 *), <<245956375, -25>> (* 7.33007122 *),
    <<199170929, -24>> (* 11.8715125 *), <<163229843, -23>> (* 19.4585137 *), <<135083375, -22>> (* 32.2063865 *),
    <<225391375, -22>> (* 53.7374919 *), <<189318060, -21>> (* 90.273886 *)>>,
  <<
    <<254869387, -27>> (* 1.89892491 *), <<255153750, -28>> (* 0.950521794 *), <<154495017, -27>> (* 1.15107758 *),
    <<234913115, -27>> (* 1.7502391 *), <<198150785, -26>> (* 2.95267681 *), <<177362029, -25>> (* 5.28580039 *),
    <<164961736, -24>> (* 9.83248571 *), <<157598025, -23>> (* 18.7871486 *), <<153573123, -22>> (* 36.6146861 *),
    <<151944793, -21>> (* 72.4529239 *), <<152156721, -20>> (* 145.107957 *), <<153867328, -19>> (* 293.478639 *),
    <<156863084, -18>> (* 598.385181 *), <<161011467, -17>> (* 1228.42001 *), <<166234013, -16>> (* 2536.52975 *)>>,
  <<
    <<134727647, -26>> (* 2.00759839 *), <<167565092, -27>> (* 1.24845723 *), <<258534838, -27>> (* 1.92623465 *),
    <<251744786, -26>> (* 3.75128964 *), <<136230063, -24>> (* 8.11994455 *), <<156579419, -23>> (* 18.6657213 *),
    <<187082420, -22>> (* 44.6039248 *), <<229657448, -21>> (* 109.509205 *), <<143800639, -19>> (* 274.277954 *),
    <<182861116, -18>> (* 697.5598 *), <<235368088, -17>> (* 1795.71601 *), <<152973531, -15>> (* 4668.38171 *),
    <<200470731, -14>> (* 12235.7624 *), <<264521138, -13>> (* 32290.178 *), <<175540379, -11>> (* 85713.076 *),
    <<234160321, -10>> (* 228672.189 *), <<156865860, -8>> (* 612757.271 *)>>,
  <<
    <<144721314, -26>> (* 2.15651564 *), <<240492082, -27>> (* 1.79180564 *), <<256808931, -26>> (* 3.82675128 *),
    <<174260322, -24>> (* 10.3867246 *), <<263430091, -23>> (* 31.403314 *), <<211652345, -21>> (* 100.923703 *),
    <<176856407, -19>> (* 337.326828 *), <<151874165, -17>> (* 1158.70793 *), <<266141089, -16>> (* 4060.99074 *),
    <<236814365, -14>> (* 14454.0018 *), <<213306003, -12>> (* 52076.661 *), <<194041506, -10>> (* 189493.659 *),
    <<177967251, -8>> (* 695184.576 *), <<164351618, -6>> (* 2567994.04 *), <<152670751, -4>> (* 9541921.96 *),
    <<142539709, -2>> (* 35634927.4 *), <<267338596, -1>> (* 133669298 *), <<251676093, 1>> (* 503352186 *),
    <<237746965, 3>> (* 1901975720 *), <<225278593, 5>> (* 7208915010 *)>>,
  <<
    <<155566575, -26>> (* 2.31812262 *), <<175618538, -26>> (* 2.61692015 *), <<265010724, -25>> (* 7.89793507 *),
    <<255872651, -23>> (* 30.5023971 *), <<137874045, -20>> (* 131.486936 *), <<158068836, -18>> (* 602.984763 *),
    <<188548684, -16>> (* 2877.02461 *), <<231186758, -14>> (* 14110.5199 *), <<144632710, -11>> (* 70621.4408 *),
    <<183796360, -9>> (* 358977.266 *), <<236446497, -7>> (* 1847238.26 *), <<153608246, -4>> (* 9600515.41 *),
    <<201230708, -2>> (* 50307677 *), <<265444188, 0>> (* 265444188 *), <<176107790, 3>> (* 1408862320 *),
    <<234865247, 5>> (* 7515687930 *)>>,
  <<
    <<166000228, -26>> (* 2.47359617 *), <<250156628, -26>> (* 3.72762424 *), <<261848603, -24>> (* 15.607393 *),
    <<176430269, -21>> (* 84.1285084 *), <<265804483, -19>> (* 506.981819 *), <<213141228, -16>> (* 3252.27705 *),
    <<177874881, -13>> (* 21713.2424 *), <<152613934, -10>> (* 149037.045 *), <<267263828, -8>> (* 1043999.33 *),
    <<237695193, -5>> (* 7427974.81 *), <<214015358, -2>> (* 53503839.6 *), <<194624943, 1>> (* 389249886 *),
    <<178455521, 4>> (* 2855288350 *), <<164766226, 7>> (* 21090077000 *), <<153027180, 10>> (* 156699833000 *),
    <<142849394, 13>> (* 1170222240000 *), <<267881723, 15>> (* 8777948320000 *), <<252156228, 18>> (* 66101242700000 *),
    <<238174463, 21>> (* 499488053000000 *), <<225661654, 24>> (* 3785974330000000 *)>>>>
(* K' in mx = mc - 0.05 of the branch mc < 0.1.                          *)
EllipticKKkcCoef == <<
  <<213540868, -27>> (* 1.59100345 *), <<223338697, -29>> (* 0.416000743 *), <<263916628, -30>> (* 0.245791514 *),
  <<192716773, -30>> (* 0.179481482 *), <<155215884, -30>> (* 0.144556057 *), <<264572117, -31>> (* 0.123200993 *),
  <<233944315, -31>> (* 0.108938811 *), <<212286080, -31>> (* 0.0988534098 *), <<196365108, -31>> (* 0.0914396292 *),
  <<184345560, -31>> (* 0.0858425915 *), <<175108218, -31>> (* 0.0815411187 *)>>

(***************************************************************************)
(* EllipticK: the complete elliptic integral of the first kind K(m),       *)
(* mc = 1 - m, of elliptic_integrals.cpp.                                  *)
(***************************************************************************)

(* Index of the interval of m used when mc >= 0.1: the first i with        *)
(* m <= EllipticKUpper[i], or the last interval.                           *)
RECURSIVE EllipticKIntervalBelow(_, _)
RECURSIVE EllipticKInterval(_, _)
(* The same with m < in place of m <=.                                     *)
EllipticKIntervalBelow(m, i) ==
  IF i > Len(EllipticKUpper) THEN i
  ELSE IF FLt(m, EllipticKUpper[i]) THEN i
  ELSE EllipticKIntervalBelow(m, i + 1)

EllipticKInterval(m, i) ==
  IF i > Len(EllipticKUpper) THEN i
  ELSE IF FLe(m, EllipticKUpper[i]) THEN i
  ELSE EllipticKInterval(m, i + 1)

(* The same with the nome branch taken for mc < 0.2.                       *)
EllipticKBranchNome(mc) ==
  Let([m \in {FSub(One, mc)} |->
  IF FLt(FAbs(m), <<241785165, -81>> (* 1.0e-16 *)) THEN "pihalf"
      ELSE IF FLt(mc, <<146783916, -356>> (* 1.0e-99 *)) THEN "tiny"
      ELSE IF FLt(mc, <<268381532, -81>> (* 1.11e-16 *)) THEN "log"
      ELSE IF FLt(mc, <<214748364, -30>> (* 0.2 *)) THEN "nome"
      ELSE "poly"])

(* The branch of the if-chain.                                             *)
EllipticKBranch(mc) ==
  Let([m \in {FSub(One, mc)} |->
  IF FLt(FAbs(m), <<241785165, -81>> (* 1.0e-16 *)) THEN "pihalf"
      ELSE IF FLt(mc, <<146783916, -356>> (* 1.0e-99 *)) THEN "tiny"
      ELSE IF FLt(mc, <<268381532, -81>> (* 1.11e-16 *)) THEN "log"
      ELSE IF FLt(mc, <<214748364, -31>> (* 0.1 *)) THEN "nome"
      ELSE "poly"])

EllipticK(mc) ==
  Let([m \in {FSub(One, mc)},
       br \in {EllipticKBranch(mc)} |->
  IF br = "pihalf" THEN PiHalf
      ELSE IF br = "tiny"
      THEN FSub(<<186065279, -27>> (* 1.38629436 *), FMul(Half, FLog(<<146783916, -356>> (* 1.0e-99 *))))
      ELSE IF br = "log"
      THEN FSub(<<186065279, -27>> (* 1.38629436 *), FMul(Half, FLog(mc)))
      ELSE IF br = "nome"
      THEN Let([nome \in {EllipticNomeQ(14, mc)},
                mx \in {FSub(mc, <<214748364, -32>> (* 0.05 *))} |->
           Let([kkc \in {Horner(EllipticKKkcCoef, mx)} |->
           FMul(FMul(FNeg(kkc), <<170891319, -29>> (* 1.0 / pi/2 * 2.0 *)), FLog(nome))])])
      ELSE Let([i \in {EllipticKInterval(m, 1)} |->
           Let([mx \in {FSub(m, EllipticKCentre[i])} |->
           Horner(EllipticKCoef[i], mx)])])])

(* The operand of log in the branch a call takes; One where the branch     *)
(* evaluates no logarithm.                                                 *)
EllipticKLogArg(mc) ==
  Let([br \in {EllipticKBranch(mc)} |->
  IF br = "tiny" THEN <<146783916, -356>> (* 1.0e-99 *)
      ELSE IF br = "log" THEN mc
      ELSE IF br = "nome" THEN EllipticNomeQ(14, mc)
      ELSE One])

(* The polynomial a call selects, 0 outside the polynomial branch, and the *)
(* centre it expands about.                                                *)
EllipticKSelected(mc) ==
  IF EllipticKBranch(mc) = "poly" THEN EllipticKInterval(FSub(One, mc), 1)
  ELSE 0

EllipticKCentreOf(mc) ==
  IF EllipticKBranch(mc) = "poly"
  THEN EllipticKCentre[EllipticKInterval(FSub(One, mc), 1)]
  ELSE IF EllipticKBranch(mc) = "nome" THEN <<214748364, -32>> (* 0.05 *)
  ELSE Zero

(* FukushimaEllipticBsDsMaclaurinSeries: the coefficients in m of F1..FB  *)
(* as the code writes them out, lowest degree first, and A1..AB.          *)
BsDsFCoef == <<
  <<
    <<178956970, -30>> (* 1.0/6.0 *), <<178956970, -30>> (* 1.0/6.0 *)>>,
  <<
    <<161061273, -31>> (* 3.0/40.0 *), <<214748364, -32>> (* 2.0/40.0 *), <<161061273, -31>> (* 3.0/40.0 *)>>,
  <<
    <<191739611, -32>> (* 5.0/112.0 *), <<230087533, -33>> (* 3.0/112.0 *), <<230087533, -33>> (* 3.0/112.0 *), <<191739611, -32>> (* 5.0/112.0 *)>>,
  <<
    <<260978915, -33>> (* 35.0/1152.0 *), <<149130808, -33>> (* 20.0/1152.0 *), <<134217728, -33>> (* 18.0/1152.0 *), <<149130808, -33>> (* 20.0/1152.0 *),
    <<260978915, -33>> (* 35.0/1152.0 *)>>,
  <<
    <<192175383, -33>> (* 63.0/2816.0 *), <<213528203, -34>> (* 35.0/2816.0 *), <<183024174, -34>> (* 30.0/2816.0 *), <<183024174, -34>> (* 30.0/2816.0 *),
    <<213528203, -34>> (* 35.0/2816.0 *), <<192175383, -33>> (* 63.0/2816.0 *)>>,
  <<
    <<149059111, -33>> (* 231.0/13312.0 *), <<162609939, -34>> (* 126.0/13312.0 *), <<135508283, -34>> (* 105.0/13312.0 *), <<258111015, -35>> (* 100.0/13312.0 *),
    <<135508283, -34>> (* 105.0/13312.0 *), <<162609939, -34>> (* 126.0/13312.0 *), <<149059111, -33>> (* 231.0/13312.0 *)>>,
  <<
    <<239914188, -34>> (* 429.0/30720.0 *), <<258369126, -35>> (* 231.0/30720.0 *), <<211392921, -35>> (* 189.0/30720.0 *), <<195734186, -35>> (* 175.0/30720.0 *),
    <<195734186, -35>> (* 175.0/30720.0 *), <<211392921, -35>> (* 189.0/30720.0 *), <<258369126, -35>> (* 231.0/30720.0 *), <<239914188, -34>> (* 429.0/30720.0 *)>>,
  <<
    <<198458428, -34>> (* 6435.0/557056.0 *), <<211688990, -35>> (* 3432.0/557056.0 *), <<167895521, -35>> (* 2722.0/557056.0 *), <<155435971, -35>> (* 2520.0/557056.0 *),
    <<151118305, -35>> (* 2450.0/557056.0 *), <<155435971, -35>> (* 2520.0/557056.0 *), <<167895521, -35>> (* 2722.0/557056.0 *), <<211688990, -35>> (* 3432.0/557056.0 *),
    <<198458428, -34>> (* 6435.0/557056.0 *)>>,
  <<
    <<167703174, -34>> (* 12155.0/1245184.0 *), <<177568067, -35>> (* 6435.0/1245184.0 *), <<142054453, -35>> (* 5148.0/1245184.0 *), <<254969532, -36>> (* 4620.0/1245184.0 *),
    <<243380008, -36>> (* 4410.0/1245184.0 *), <<243380008, -36>> (* 4410.0/1245184.0 *), <<254969532, -36>> (* 4620.0/1245184.0 *), <<142054453, -35>> (* 5148.0/1245184.0 *),
    <<177568067, -35>> (* 6435.0/1245184.0 *), <<167703174, -34>> (* 12155.0/1245184.0 *)>>,
  <<
    <<144144871, -34>> (* 46189.0/5505024.0 *), <<151731443, -35>> (* 24310.0/5505024.0 *), <<240985234, -36>> (* 19305.0/5505024.0 *), <<214209097, -36>> (* 17160.0/5505024.0 *),
    <<201850880, -36>> (* 16170.0/5505024.0 *), <<198180864, -36>> (* 15876.0/5505024.0 *), <<201850880, -36>> (* 16170.0/5505024.0 *), <<214209097, -36>> (* 17160.0/5505024.0 *),
    <<240985234, -36>> (* 19305.0/5505024.0 *), <<151731443, -35>> (* 24310.0/5505024.0 *), <<144144871, -34>> (* 46189.0/5505024.0 *)>>,
  <<
    <<251256475, -35>> (* 88179.0/12058624.0 *), <<263221069, -36>> (* 46189.0/12058624.0 *), <<207806107, -36>> (* 36465.0/12058624.0 *), <<183358330, -36>> (* 32175.0/12058624.0 *),
    <<171134441, -36>> (* 30030.0/12058624.0 *), <<165868766, -36>> (* 29106.0/12058624.0 *), <<165868766, -36>> (* 29106.0/12058624.0 *), <<171134441, -36>> (* 30030.0/12058624.0 *),
    <<183358330, -36>> (* 32175.0/12058624.0 *), <<207806107, -36>> (* 36465.0/12058624.0 *), <<263221069, -36>> (* 46189.0/12058624.0 *), <<251256475, -35>> (* 88179.0/12058624.0 *)>>>>
BsDsA == <<
  <<161061273, -28>> (* 3.0/5.0 *), <<191739611, -28>> (* 5.0/7.0 *), <<208783132, -28>> (* 7.0/9.0 *), <<219629009, -28>> (* 9.0/11.0 *), <<227137693, -28>> (* 11.0/13.0 *), <<232644061, -28>> (* 13.0/15.0 *),
  <<236854814, -28>> (* 15.0/17.0 *), <<240179092, -28>> (* 17.0/19.0 *), <<242870174, -28>> (* 19.0/21.0 *), <<245093242, -28>> (* 21.0/23.0 *), <<246960619, -28>> (* 23.0/25.0 *)>>
(* FukushimaEllipticJsMaclaurinSeries: JsCoef[k][i + 1][j + 1] is the    *)
(* coefficient Jkij of m^i n^j in Jk, k = 1..10 (J1..J9, JA).            *)
JsCoef == <<
  <<<<<<178956970, -29>> (* 1.0/3.0 *)>>>>,
  <<<<<<214748364, -31>> (* 1.0/10.0 *), <<214748364, -30>> (* 2.0/10.0 *)>>,
    <<<<214748364, -31>> (* 1.0/10.0 *)>>>>,
  <<<<<<230087533, -32>> (* 3.0/56.0 *), <<153391689, -31>> (* 4.0/56.0 *), <<153391689, -30>> (* 8.0/56.0 *)>>,
    <<<<153391689, -32>> (* 2.0/56.0 *), <<153391689, -31>> (* 4.0/56.0 *)>>,
    <<<<230087533, -32>> (* 3.0/56.0 *)>>>>,
  <<<<<<149130808, -32>> (* 5.0/144.0 *), <<178956970, -32>> (* 6.0/144.0 *), <<238609294, -32>> (* 8.0/144.0 *), <<238609294, -31>> (* 16.0/144.0 *)>>,
    <<<<178956970, -33>> (* 3.0/144.0 *), <<238609294, -33>> (* 4.0/144.0 *), <<238609294, -32>> (* 8.0/144.0 *)>>,
    <<<<178956970, -33>> (* 3.0/144.0 *), <<178956970, -32>> (* 6.0/144.0 *)>>,
    <<<<149130808, -32>> (* 5.0/144.0 *)>>>>,
  <<<<<<213528203, -33>> (* 35.0/1408.0 *), <<244032232, -33>> (* 40.0/1408.0 *), <<146419339, -32>> (* 48.0/1408.0 *), <<195225786, -32>> (* 64.0/1408.0 *), <<195225786, -31>> (* 128.0/1408.0 *)>>,
    <<<<244032232, -34>> (* 20.0/1408.0 *), <<146419339, -33>> (* 24.0/1408.0 *), <<195225786, -33>> (* 32.0/1408.0 *), <<195225786, -32>> (* 64.0/1408.0 *)>>,
    <<<<219629009, -34>> (* 18.0/1408.0 *), <<146419339, -33>> (* 24.0/1408.0 *), <<146419339, -32>> (* 48.0/1408.0 *)>>,
    <<<<244032232, -34>> (* 20.0/1408.0 *), <<244032232, -33>> (* 40.0/1408.0 *)>>,
    <<<<213528203, -33>> (* 35.0/1408.0 *)>>>>,
  <<<<<<162609939, -33>> (* 63.0/3328.0 *), <<180677710, -33>> (* 70.0/3328.0 *), <<206488812, -33>> (* 80.0/3328.0 *), <<247786574, -33>> (* 96.0/3328.0 *), <<165191049, -32>> (* 128.0/3328.0 *), <<165191049, -31>> (* 256.0/3328.0 *)>>,
    <<<<180677710, -34>> (* 35.0/3328.0 *), <<206488812, -34>> (* 40.0/3328.0 *), <<247786574, -34>> (* 48.0/3328.0 *), <<165191049, -33>> (* 64.0/3328.0 *), <<165191049, -32>> (* 128.0/3328.0 *)>>,
    <<<<154866609, -34>> (* 30.0/3328.0 *), <<185839931, -34>> (* 36.0/3328.0 *), <<247786574, -34>> (* 48.0/3328.0 *), <<247786574, -33>> (* 96.0/3328.0 *)>>,
    <<<<154866609, -34>> (* 30.0/3328.0 *), <<206488812, -34>> (* 40.0/3328.0 *), <<206488812, -33>> (* 80.0/3328.0 *)>>,
    <<<<180677710, -34>> (* 35.0/3328.0 *), <<180677710, -33>> (* 70.0/3328.0 *)>>,
    <<<<162609939, -33>> (* 63.0/3328.0 *)>>>>,
  <<<<<<258369126, -34>> (* 231.0/15360.0 *), <<140928614, -33>> (* 252.0/15360.0 *), <<156587349, -33>> (* 280.0/15360.0 *), <<178956970, -33>> (* 320.0/15360.0 *), <<214748364, -33>> (* 384.0/15360.0 *), <<143165576, -32>> (* 512.0/15360.0 *), <<143165576, -31>> (* 1024.0/15360.0 *)>>,
    <<<<140928614, -34>> (* 126.0/15360.0 *), <<156587349, -34>> (* 140.0/15360.0 *), <<178956970, -34>> (* 160.0/15360.0 *), <<214748364, -34>> (* 192.0/15360.0 *), <<143165576, -33>> (* 256.0/15360.0 *), <<143165576, -32>> (* 512.0/15360.0 *)>>,
    <<<<234881024, -35>> (* 105.0/15360.0 *), <<134217728, -34>> (* 120.0/15360.0 *), <<161061273, -34>> (* 144.0/15360.0 *), <<214748364, -34>> (* 192.0/15360.0 *), <<214748364, -33>> (* 384.0/15360.0 *)>>,
    <<<<223696213, -35>> (* 100.0/15360.0 *), <<134217728, -34>> (* 120.0/15360.0 *), <<178956970, -34>> (* 160.0/15360.0 *), <<178956970, -33>> (* 320.0/15360.0 *)>>,
    <<<<234881024, -35>> (* 105.0/15360.0 *), <<156587349, -34>> (* 140.0/15360.0 *), <<156587349, -33>> (* 280.0/15360.0 *)>>,
    <<<<140928614, -34>> (* 126.0/15360.0 *), <<140928614, -33>> (* 252.0/15360.0 *)>>,
    <<<<258369126, -34>> (* 231.0/15360.0 *)>>>>,
  <<<<<<211688990, -34>> (* 429.0/34816.0 *), <<227972758, -34>> (* 462.0/34816.0 *), <<248697554, -34>> (* 504.0/34816.0 *), <<138165308, -33>> (* 560.0/34816.0 *), <<157903209, -33>> (* 640.0/34816.0 *), <<189483851, -33>> (* 768.0/34816.0 *), <<252645135, -33>> (* 1024.0/34816.0 *), <<252645135, -32>> (* 2048.0/34816.0 *)>>,
    <<<<227972758, -35>> (* 231.0/34816.0 *), <<248697554, -35>> (* 252.0/34816.0 *), <<138165308, -34>> (* 280.0/34816.0 *), <<157903209, -34>> (* 320.0/34816.0 *), <<189483851, -34>> (* 384.0/34816.0 *), <<252645135, -34>> (* 512.0/34816.0 *), <<252645135, -33>> (* 1024.0/34816.0 *)>>,
    <<<<186523166, -35>> (* 189.0/34816.0 *), <<207247962, -35>> (* 210.0/34816.0 *), <<236854814, -35>> (* 240.0/34816.0 *), <<142112888, -34>> (* 288.0/34816.0 *), <<140139098, -34>> (* 284.0/34816.0 *), <<189483851, -33>> (* 768.0/34816.0 *)>>,
    <<<<172706635, -35>> (* 175.0/34816.0 *), <<197379011, -35>> (* 200.0/34816.0 *), <<236854814, -35>> (* 240.0/34816.0 *), <<157903209, -34>> (* 320.0/34816.0 *), <<157903209, -33>> (* 640.0/34816.0 *)>>,
    <<<<172706635, -35>> (* 175.0/34816.0 *), <<207247962, -35>> (* 210.0/34816.0 *), <<138165308, -34>> (* 280.0/34816.0 *), <<138165308, -33>> (* 560.0/34816.0 *)>>,
    <<<<186523166, -35>> (* 189.0/34816.0 *), <<248697554, -35>> (* 252.0/34816.0 *), <<248697554, -34>> (* 504.0/34816.0 *)>>,
    <<<<227972758, -35>> (* 231.0/34816.0 *), <<227972758, -34>> (* 462.0/34816.0 *)>>,
    <<<<211688990, -34>> (* 429.0/34816.0 *)>>>>,
  <<<<<<177568067, -34>> (* 6435.0/622592.0 *), <<189405938, -34>> (* 6864.0/622592.0 *), <<203975626, -34>> (* 7392.0/622592.0 *), <<222518864, -34>> (* 8064.0/622592.0 *), <<247243183, -34>> (* 8960.0/622592.0 *), <<141281818, -33>> (* 10240.0/622592.0 *), <<169538182, -33>> (* 12288.0/622592.0 *), <<226050910, -33>> (* 16384.0/622592.0 *), <<226050910, -32>> (* 32768.0/622592.0 *)>>,
    <<<<189405938, -35>> (* 3432.0/622592.0 *), <<203975626, -35>> (* 3696.0/622592.0 *), <<222518864, -35>> (* 4032.0/622592.0 *), <<247243183, -35>> (* 4480.0/622592.0 *), <<141281818, -34>> (* 5120.0/622592.0 *), <<169538182, -34>> (* 6144.0/622592.0 *), <<226050910, -34>> (* 8192.0/622592.0 *), <<226050910, -33>> (* 16384.0/622592.0 *)>>,
    <<<<152981719, -35>> (* 2772.0/622592.0 *), <<166889148, -35>> (* 3024.0/622592.0 *), <<185432387, -35>> (* 3360.0/622592.0 *), <<211922728, -35>> (* 3840.0/622592.0 *), <<254307274, -35>> (* 4608.0/622592.0 *), <<169538182, -34>> (* 6144.0/622592.0 *), <<169538182, -33>> (* 12288.0/622592.0 *)>>,
    <<<<139074290, -35>> (* 2520.0/622592.0 *), <<154526989, -35>> (* 2800.0/622592.0 *), <<176602273, -35>> (* 3200.0/622592.0 *), <<211922728, -35>> (* 3840.0/622592.0 *), <<141281818, -34>> (* 5120.0/622592.0 *), <<141281818, -33>> (* 10240.0/622592.0 *)>>,
    <<<<135211115, -35>> (* 2450.0/622592.0 *), <<154526989, -35>> (* 2800.0/622592.0 *), <<185432387, -35>> (* 3360.0/622592.0 *), <<247243183, -35>> (* 4480.0/622592.0 *), <<247243183, -34>> (* 8960.0/622592.0 *)>>,
    <<<<139074290, -35>> (* 2520.0/622592.0 *), <<166889148, -35>> (* 3024.0/622592.0 *), <<222518864, -35>> (* 4032.0/622592.0 *), <<222518864, -34>> (* 8064.0/622592.0 *)>>,
    <<<<152981719, -35>> (* 2772.0/622592.0 *), <<203975626, -35>> (* 3696.0/622592.0 *), <<203975626, -34>> (* 7392.0/622592.0 *)>>,
    <<<<189405938, -35>> (* 3432.0/622592.0 *), <<189405938, -34>> (* 6864.0/622592.0 *)>>,
    <<<<177568067, -34>> (* 6435.0/622592.0 *)>>>>,
  <<<<<<151731443, -34>> (* 12155.0/1376256.0 *), <<160656822, -34>> (* 12870.0/1376256.0 *), <<171367277, -34>> (* 13728.0/1376256.0 *), <<184549376, -34>> (* 14784.0/1376256.0 *), <<201326592, -34>> (* 16128.0/1376256.0 *), <<223696213, -34>> (* 17920.0/1376256.0 *), <<255652815, -34>> (* 20480.0/1376256.0 *), <<153391689, -33>> (* 24576.0/1376256.0 *), <<204522252, -33>> (* 32768.0/1376256.0 *), <<204522252, -32>> (* 65536.0/1376256.0 *)>>,
    <<<<160656822, -35>> (* 6435.0/1376256.0 *), <<171367277, -35>> (* 6864.0/1376256.0 *), <<184549376, -35>> (* 7392.0/1376256.0 *), <<201326592, -35>> (* 8064.0/1376256.0 *), <<223696213, -35>> (* 8960.0/1376256.0 *), <<255652815, -35>> (* 10240.0/1376256.0 *), <<153391689, -34>> (* 12288.0/1376256.0 *), <<204522252, -34>> (* 16384.0/1376256.0 *), <<204522252, -33>> (* 32768.0/1376256.0 *)>>,
    <<<<257050916, -36>> (* 5148.0/1376256.0 *), <<138412032, -35>> (* 5544.0/1376256.0 *), <<150994944, -35>> (* 6048.0/1376256.0 *), <<167772160, -35>> (* 6720.0/1376256.0 *), <<191739611, -35>> (* 7680.0/1376256.0 *), <<230087533, -35>> (* 9216.0/1376256.0 *), <<153391689, -34>> (* 12288.0/1376256.0 *), <<153391689, -33>> (* 24576.0/1376256.0 *)>>,
    <<<<230686720, -36>> (* 4620.0/1376256.0 *), <<251658240, -36>> (* 5040.0/1376256.0 *), <<139810133, -35>> (* 5600.0/1376256.0 *), <<159783009, -35>> (* 6400.0/1376256.0 *), <<191739611, -35>> (* 7680.0/1376256.0 *), <<255652815, -35>> (* 10240.0/1376256.0 *), <<255652815, -34>> (* 20480.0/1376256.0 *)>>,
    <<<<220200960, -36>> (* 4410.0/1376256.0 *), <<244667733, -36>> (* 4900.0/1376256.0 *), <<139810133, -35>> (* 5600.0/1376256.0 *), <<167772160, -35>> (* 6720.0/1376256.0 *), <<223696213, -35>> (* 8960.0/1376256.0 *), <<223696213, -34>> (* 17920.0/1376256.0 *)>>,
    <<<<220200960, -36>> (* 4410.0/1376256.0 *), <<251658240, -36>> (* 5040.0/1376256.0 *), <<150994944, -35>> (* 6048.0/1376256.0 *), <<201326592, -35>> (* 8064.0/1376256.0 *), <<201326592, -34>> (* 16128.0/1376256.0 *)>>,
    <<<<230686720, -36>> (* 4620.0/1376256.0 *), <<138412032, -35>> (* 5544.0/1376256.0 *), <<184549376, -35>> (* 7392.0/1376256.0 *), <<184549376, -34>> (* 14784.0/1376256.0 *)>>,
    <<<<257050916, -36>> (* 5148.0/1376256.0 *), <<171367277, -35>> (* 6864.0/1376256.0 *), <<171367277, -34>> (* 13728.0/1376256.0 *)>>,
    <<<<160656822, -35>> (* 6435.0/1376256.0 *), <<160656822, -34>> (* 12870.0/1376256.0 *)>>,
    <<<<151731443, -34>> (* 12155.0/1376256.0 *)>>>>>>
(* The bounds on y below which the series stops at J5, J6, J7, J8, J9.   *)
JsUpper == <<<<165941895, -38>> (* 0.0006036931 *), <<142438329, -36>> (* 0.0020727505 *), <<171960271, -35>> (* 0.0050047026 *), <<166578849, -34>> (* 0.0096961652 *), <<139330542, -33>> (* 0.01622021 *)>>
(* FukushimaT: the bounds on |z| below which the Maclaurin series of     *)
(* degree 0, 1, ..., 12 is used.                                         *)
TUpper == <<<<201326594, -79>> (* 3.3306691e-16 *), <<212216866, -53>> (* 2.3560805e-8 *), <<161741910, -44>> (* 0.0000091939631 *), <<195484811, -40>> (* 0.0001777924 *), <<143044250, -37>> (* 0.0010407839 *), <<231014251, -36>> (* 0.0033616998 *), <<265971910, -35>> (* 0.0077408014 *), <<248028880, -34>> (* 0.014437181 *), <<201067279, -33>> (* 0.023407312 *), <<147816466, -32>> (* 0.034416203 *), <<202458517, -32>> (* 0.047138547 *), <<262969702, -32>> (* 0.061227405 *), <<163967823, -31>> (* 0.076353468 *)>>

(***************************************************************************)
(* The Maclaurin series of Bs and Ds, of Js, and Fukushima's T function.   *)
(***************************************************************************)

(* F1..FB at m, then D0..DB and 1, B1..BB, and the two series in y.        *)
FukushimaEllipticBsDsMaclaurinSeries(y, m) ==
  Let([F \in {[k \in 1..11 |-> Horner(BsDsFCoef[k], m)]} |->
  Let([D \in {[k \in 1..12 |-> IF k = 1 THEN <<178956970, -29>> (* 1.0/3.0 *)
                            ELSE FMul(F[k - 1], BsDsA[k - 1])]} |->
  Let([B \in {[k \in 1..12 |-> IF k = 1 THEN One ELSE FSub(F[k - 1], D[k - 1])]} |->
  [b |-> HornerAcc(B, y, 11, B[12]), d |-> HornerAcc(D, y, 11, D[12])]])])])

(* The number of terms J1..Jk of the series of Js used at y.               *)
RECURSIVE JsTerms(_, _)
JsTerms(y, i) ==
  IF i > Len(JsUpper) THEN 5 + Len(JsUpper)
  ELSE IF FLe(y, JsUpper[i]) THEN 4 + i
  ELSE JsTerms(y, i + 1)

(* Jk = P0(n) + m * (P1(n) + m * (...)), Pi the polynomial in n with the   *)
(* coefficients JsCoef[k][i + 1].                                          *)
JsJ(k, n, m) ==
  Let([P \in {[i \in 1..k |-> Horner(JsCoef[k][i], n)]} |->
  HornerAcc(P, m, k - 1, P[k])])

FukushimaEllipticJsMaclaurinSeries(y, n, m) ==
  Let([terms \in {JsTerms(y, 1)} |->
  Let([J \in {[k \in 1..terms |-> JsJ(k, n, m)]} |->
  FMul(y, HornerAcc(J, y, terms - 1, J[terms]))])])

(* FukushimaTMaclaurin<degree>: sum of z^k / (2 k + 1), k = 0..degree.     *)
RECURSIVE TMaclaurinAcc(_, _, _)
TMaclaurinAcc(z, k, acc) ==
  IF k < 0 \/ acc = NaN THEN acc
  ELSE TMaclaurinAcc(z, k - 1, FAdd(Rat(1, 2 * k + 1), FMul(z, acc)))

TMaclaurin(degree, z) == TMaclaurinAcc(z, degree - 1, Rat(1, 2 * degree + 1))

(* The branch of FukushimaT: the degree of the Maclaurin series used, or   *)
(* -1 for the arc tangent and -2 for the hyperbolic arc tangent.           *)
RECURSIVE TBranchLate(_, _, _)
RECURSIVE TBranch(_, _, _)
(* The same with the test z < 0.0 after the last bound.                    *)
TBranchLate(z, absz, i) ==
  IF i > Len(TUpper) THEN IF FLt(z, Zero) THEN -1 ELSE -2
  ELSE IF FLt(absz, TUpper[i]) THEN i - 1
  ELSE TBranchLate(z, absz, i + 1)

TBranch(z, absz, i) ==
  IF i > Len(TUpper) THEN -2
  ELSE IF FLt(absz, TUpper[i]) THEN i - 1
  ELSE IF i = 10 /\ FLt(z, Zero) THEN -1
  ELSE TBranch(z, absz, i + 1)

(* z = -h * t * t                                                          *)
TZ(t, h) == FMul(FMul(FNeg(h), t), t)

(* The operand of Sqrt in the branch br: h for the arc tangent, -h for the *)
(* hyperbolic arc tangent; no square root is taken in the other branches.  *)
TRadicand(br, h) == IF br = -1 THEN h ELSE IF br = -2 THEN FNeg(h) ELSE One

FukushimaT(t, h) ==
  Let([z \in {TZ(t, h)} |->
  Let([br \in {TBranch(z, FAbs(z), 1)} |->
  IF br = 0 THEN t
      ELSE IF br > 0 THEN FMul(t, TMaclaurin(br, z))
      ELSE IF br = -1
      THEN Let([r \in {FSqrt(h)} |->
           FDiv(FAtan(FMul(r, t)), r)])
      ELSE Let([r \in {FSqrt(FNeg(h))} |->
           FDiv(FAtanh(FMul(r, t)), r)])])])

(***************************************************************************)
(* FukushimaEllipticBsDsJs and FukushimaEllipticBcDcJc: the incomplete     *)
(* integrals by half and double argument transformations.                  *)
(***************************************************************************)
max_transformations == 10

(* The ladder of BsDsJs on entry: y[0] = y0, s[0] = s0, i = 0.  y[k], s[k] *)
(* and cd[k] of the code are ys[k + 1], ss[k + 1] and cds[k + 1].          *)
LadderS(s0) ==
  Let([y0 \in {FMul(s0, s0)} |->
  [i |-> 0, yi |-> y0, ys |-> <<y0>>, ss |-> <<s0>>, cds |-> <<>>]])

(* The ladder of BcDcJc on entry: y[0] = y0, s[0] = Sqrt(y0), i = 0.       *)
LadderC(c0) ==
  Let([x0 \in {FMul(c0, c0)} |->
  Let([y0 \in {FSub(One, x0)} |->
  [i |-> 0, ci |-> c0, xi |-> x0, ys |-> <<y0>>, ss |-> <<FSqrt(y0)>>,
       cds |-> <<>>]])])

(* One pass of for (; y_i >= yB; ++i): a half argument transformation of   *)
(* s, which writes y[i + 1], s[i + 1] and cd[i].                           *)
HalfStepS(l, m) ==
  Let([ci \in {FSqrt(FSub(One, l.yi))},
       di \in {FSqrt(FSub(One, FMul(m, l.yi)))} |->
  Let([y1 \in {FDiv(l.yi, FMul(FAdd(One, ci), FAdd(One, di)))} |->
  [i |-> l.i + 1, yi |-> y1, ys |-> Append(l.ys, y1),
       ss |-> Append(l.ss, FSqrt(y1)), cds |-> Append(l.cds, FMul(ci, di))]])])

(* One pass of for (; x_i <= xS; ++i): a half argument transformation of   *)
(* c.                                                                      *)
HalfStepC(l, mc, m) ==
  Let([di \in {FSqrt(FAdd(mc, FMul(m, l.xi)))} |->
  Let([x1 \in {FDiv(FAdd(l.ci, di), FAdd(One, di))} |->
  Let([y1 \in {FSub(One, x1)} |->
  [i |-> l.i + 1, ci |-> FSqrt(x1), xi |-> x1, ys |-> Append(l.ys, y1),
       ss |-> Append(l.ss, FSqrt(y1)), cds |-> Append(l.cds, FMul(l.ci, di))]])])])

(* The test of the loop of BsDsJs with yB = 0.02.                          *)
MoreSLoose(l) == FGe(l.yi, <<171798691, -33>> (* 0.02 *))

(* The tests of the two loops.                                             *)
MoreS(l) == FGe(l.yi, <<139328739, -33>> (* 0.01622 *))

MoreC(l) == FLe(l.xi, <<214748364, -31>> (* 0.1 *))

(* Half argument transformation of s: the whole loop.  overrun: the loop   *)
(* wants a pass with i = max_transformations, for which the arrays have    *)
(* no room.                                                                *)
RECURSIVE HalfArgumentS(_, _)
HalfArgumentS(l, m) ==
  IF ~MoreS(l) THEN [l |-> l, overrun |-> FALSE]
  ELSE IF l.i = max_transformations THEN [l |-> l, overrun |-> TRUE]
  ELSE HalfArgumentS(HalfStepS(l, m), m)

(* Half argument transformation of c: the whole loop.                      *)
RECURSIVE HalfArgumentC(_, _, _)
HalfArgumentC(l, mc, m) ==
  IF ~MoreC(l) THEN [l |-> l, overrun |-> FALSE]
  ELSE IF l.i = max_transformations THEN [l |-> l, overrun |-> TRUE]
  ELSE HalfArgumentC(HalfStepC(l, mc, m), mc, m)

(* The same with cd[k] in place of cd[k - 1].                              *)
DoubleReadsNext(k) == [s |-> k - 1, ya |-> k, yb |-> k - 1, cd |-> k]

(* The entries a pass of the backward loop reads at level k, by their      *)
(* index in the code: s[k - 1], y[k], y[k - 1] and cd[k - 1].              *)
DoubleReads(k) == [s |-> k - 1, ya |-> k, yb |-> k - 1, cd |-> k - 1]

(* The entries of the arrays of the ladder l that the forward pass has     *)
(* assigned, by their index in the code.                                   *)
LadderWritten(l) ==
  [s |-> 0 .. Len(l.ss) - 1, y |-> 0 .. Len(l.ys) - 1,
   cd |-> 0 .. Len(l.cds) - 1]

(* The pass at level k reads assigned entries only.                        *)
DoubleReadable(k, l) ==
  /\ DoubleReads(k).s \in LadderWritten(l).s
  /\ {DoubleReads(k).ya, DoubleReads(k).yb} \subseteq LadderWritten(l).y
  /\ DoubleReads(k).cd \in LadderWritten(l).cd

(* The same with 2 B + sy in place of 2 B - sy.                            *)
DoubleStepPlus(k, v, l, n, h) ==
  Let([sy \in {FMul(l.ss[k], l.ys[k + 1])} |->
  Let([t \in {FDiv(sy, FSub(One, FMul(n, FSub(l.ys[k],
                                            FMul(l.ys[k + 1], l.cds[k])))))} |->
  [b |-> FAdd(FMul(Two, v.b), sy), d |-> FAdd(v.d, FAdd(v.d, sy)),
       j |-> FAdd(v.j, FAdd(v.j, FukushimaT(t, h)))]])])

(* One pass of for (int k = i; k > 0; --k): a double argument              *)
(* transformation of B, D, J at level k of the ladder l.  The entry of     *)
(* index x of an array is the element x + 1 of its sequence.               *)
DoubleStep(k, v, l, n, h) ==
  Let([r \in {DoubleReads(k)} |->
  Let([sy \in {FMul(l.ss[r.s + 1], l.ys[r.ya + 1])} |->
  Let([t \in {FDiv(sy, FSub(One, FMul(n, FSub(l.ys[r.yb + 1],
                                            FMul(l.ys[r.ya + 1],
                                                 l.cds[r.cd + 1])))))} |->
  [b |-> FSub(FMul(Two, v.b), sy), d |-> FAdd(v.d, FAdd(v.d, sy)),
       j |-> FAdd(v.j, FAdd(v.j, FukushimaT(t, h)))]])])])

(* Double argument transformation of B, D, J: the whole loop.              *)
RECURSIVE DoubleArgument(_, _, _, _, _)
DoubleArgument(k, v, l, n, h) ==
  IF k = 0 \/ {v.b, v.d, v.j} = {NaN} THEN v
  ELSE DoubleArgument(k - 1, DoubleStep(k, v, l, n, h), l, n, h)

(* h = n * (1.0 - n) * (n - m)                                             *)
LadderH(n, m) == FMul(FMul(n, FSub(One, n)), FSub(n, m))

(* The Maclaurin series at the end of the ladder l of BsDsJs.              *)
SeriesS(l, n, m) ==
  Let([bd \in {FukushimaEllipticBsDsMaclaurinSeries(l.yi, m)},
       si \in {l.ss[l.i + 1]} |->
  [b |-> FMul(si, bd.b), d |-> FMul(FMul(si, l.yi), bd.d),
       j |-> FMul(si, FukushimaEllipticJsMaclaurinSeries(l.yi, n, m))]])

FukushimaEllipticBsDsJs(s0, n, mc) ==
  Let([m \in {FSub(One, mc)} |->
  Let([f \in {HalfArgumentS(LadderS(s0), m)} |->
  Let([r \in {DoubleArgument(f.l.i, SeriesS(f.l, n, m), f.l, n, LadderH(n, m))} |->
  IF f.overrun
      THEN [b |-> NaN, d |-> NaN, j |-> NaN, overrun |-> TRUE, i |-> f.l.i]
      ELSE [b |-> r.b, d |-> r.d, j |-> r.j, overrun |-> FALSE, i |-> f.l.i]])])])

FukushimaEllipticBcDcJc(c0, n, mc) ==
  Let([m \in {FSub(One, mc)} |->
  Let([f \in {HalfArgumentC(LadderC(c0), mc, m)} |->
  Let([v \in {FukushimaEllipticBsDsJs(f.l.ss[f.l.i + 1], n, mc)} |->
  Let([r \in {DoubleArgument(f.l.i, [b |-> v.b, d |-> v.d, j |-> v.j], f.l, n,
                          LadderH(n, m))} |->
  IF f.overrun \/ v.overrun
      THEN [b |-> NaN, d |-> NaN, j |-> NaN, overrun |-> TRUE,
            i |-> f.l.i, si |-> v.i]
      ELSE [b |-> r.b, d |-> r.d, j |-> r.j, overrun |-> FALSE,
            i |-> f.l.i, si |-> v.i]])])])])

(***************************************************************************)
(* FukushimaEllipticBDJ(phi, n, mc): the incomplete integrals B, D and J.  *)
(***************************************************************************)

(* The selection rule without its first test.                              *)
BDJSelectNoSine(phi, mc, c2, zden) ==
  IF FLt(c2, FMul(<<241591910, -28>> (* 0.9 *), zden)) THEN "sc"
  ELSE IF FLt(FMul(mc, FSub(One, c2)), FMul(c2, zden)) THEN "c"
  ELSE "cc"

(* The branch of the selection rule: "s" for phi < phi_s, "sc" and "cc"    *)
(* for the two branches that subtract from the complete integrals, "c"     *)
(* for the direct use of BcDcJc.                                           *)
BDJSelect(phi, mc, c2, zden) ==
  IF FLt(phi, <<167637942, -27>> (* 1.249 *)) THEN "s"
  ELSE IF FLt(c2, FMul(<<241591910, -28>> (* 0.9 *), zden)) THEN "sc"
  ELSE IF FLt(FMul(mc, FSub(One, c2)), FMul(c2, zden)) THEN "c"
  ELSE "cc"

(* The selection rule: the branch br, the entry routine it calls ("s" for  *)
(* BsDsJs, "c" for BcDcJc) with its first argument earg, and the product   *)
(* sz of the two branches that subtract from the complete integrals.       *)
BDJDispatch(phi, n, mc) ==
  Let([m \in {FSub(One, mc)},
       c \in {FCos(phi)} |->
  Let([c2 \in {FMul(c, c)} |->
  Let([zden \in {FAdd(mc, FMul(m, c2))} |->
  Let([br \in {BDJSelect(phi, mc, c2, zden)},
       z \in {FDiv(c, FSqrt(zden))},
       w2 \in {FDiv(FSub(One, c2), zden)} |->
  [br |-> br, entry |-> IF br \in {"s", "sc"} THEN "s" ELSE "c",
       earg |-> IF br = "s" THEN FSin(phi)
                ELSE IF br = "sc" THEN z
                ELSE IF br = "c" THEN c
                ELSE FSqrt(FMul(mc, w2)),
       sz |-> IF br = "sc" THEN FMul(z, FSqrt(FSub(One, c2)))
              ELSE FMul(c, FSqrt(w2))]])])])])

(* b = bc - (b - sz); d = dc - (d + sz); j = jc - (j + FukushimaT(t, h))   *)
Complement(v, cplt, sz, nc, h) ==
  Let([t \in {FDiv(sz, nc)} |->
  [b |-> FSub(cplt.b, FSub(v.b, sz)), d |-> FSub(cplt.d, FAdd(v.d, sz)),
       j |-> FSub(cplt.j, FAdd(v.j, FukushimaT(t, h)))]])

(* One whole call: the values, the levels of the ladder of BcDcJc and of   *)
(* BsDsJs, and the calls made.                                             *)
FukushimaEllipticBDJ(phi, n, mc) ==
  Let([nc \in {FSub(One, n)},
       sel \in {BDJDispatch(phi, n, mc)} |->
  Let([h \in {FMul(FMul(n, nc), FSub(n, FSub(One, mc)))},
       v \in {IF sel.entry = "s" THEN FukushimaEllipticBsDsJs(sel.earg, n, mc)
           ELSE FukushimaEllipticBcDcJc(sel.earg, n, mc)},
       direct \in {sel.br \in {"s", "c"}},
       cplt \in {CompleteBDJ(nc, mc)} |->
  Let([r \in {IF direct THEN v ELSE Complement(v, cplt, sel.sz, nc, h)} |->
  [b |-> r.b, d |-> r.d, j |-> r.j, overrun |-> v.overrun,
       returned |-> direct \/ cplt.returned, branch |-> sel.br,
       levels |-> IF sel.entry = "s" THEN <<0, v.i>> ELSE <<v.i, v.si>>,
       entries |-> 1, completes |-> IF direct THEN 0 ELSE 1]])])])

(***************************************************************************)
(* The program as a state machine.                                         *)
(*                                                                         *)
(* elkSave  the variables elk keeps between calls (save first, mcold,      *)
(*          PIHALF, PIINV, elkold, TINY): the only storage of the library  *)
(*          that outlives a call.                                          *)
(* intOv    what static_cast<int> yields in this build for a double that   *)
(*          does not fit an int (the conversion is undefined there).       *)
(* dchecks  whether this build compiles the DCHECKs in (a debug build) or  *)
(*          leaves them out (NDEBUG).                                      *)
(* call     the sequential caller: the call in progress and its result.    *)
(* thr      the callers of elk that run concurrently, one record each.     *)
(* cel      one call of BulirschCel taken one pass of its loop at a time.  *)
(* inc      one call of the incomplete integrals taken one transformation  *)
(*          at a time.                                                     *)
(* dup      one call of scd2 taken one halving or duplication at a time.   *)
(***************************************************************************)
VARIABLES elkSave, intOv, dchecks, call, thr, cel, inc, dup

vars == <<elkSave, intOv, dchecks, call, thr, cel, inc, dup>>

(* What uninitialised saved variables may hold.                            *)
Garbage == {Zero, NaN}

(* cvttsd2si yields INT_MIN for every double out of range; a saturating    *)
(* conversion yields INT_MAX for a positive one.                           *)
IntOverflowOutcomes == {<<-134217728, 4>> (* -2^31 *), <<268435455, 3>> (* 2147483647 *)}

Threads == {1, 2}

(* What a call did on its way: the branch and the octant it took, whether  *)
(* its int conversion overflowed, the halvings scd2 made, the reduced      *)
(* argument ux, the K used and the argument core handed to scd2, the       *)
(* levels of the two ladders of half argument transformations, whether a   *)
(* ladder had no room for a further level, and the numbers of calls of the *)
(* entry routines and of the complete integrals; for FukushimaT its z, the *)
(* degree of the series used and the operand of Sqrt; for the complete     *)
(* integral of the first kind the operand of log, the polynomial selected  *)
(* and its centre; for Gscd the triple raw that scd2 returned and s before *)
(* the sign of u is given to it (pre).                                     *)
NoPath ==
  [branch |-> "", octant |-> 0, overflow |-> FALSE, halvings |-> 0,
   ux |-> Zero, k |-> Zero, core |-> Zero, levels |-> <<0, 0>>,
   overrun |-> FALSE, entries |-> 0, completes |-> 0, z |-> Zero,
   degree |-> 0, radicand |-> One, logarg |-> One,
   interval |-> 0, centre |-> Zero, raw |-> <<Zero, One, One>>,
   pre |-> Zero]

CallIdle ==
  [pc |-> "idle", fn |-> "", arg |-> <<>>, ret |-> <<>>, path |-> NoPath]

ThreadIdle == [pc |-> "idle", mc |-> One, val |-> Zero, calls |-> 0]

(* A call of the incomplete integrals in progress: the selection sel made  *)
(* by the dispatch, the ladders lc of BcDcJc and ls of BsDsJs, the values  *)
(* v = (b, d, j), the index k of the backward loop, the double argument    *)
(* transformations made so far by BcDcJc and by BsDsJs (ups), and the      *)
(* calls made so far: of the dispatch itself (tops), of an entry routine   *)
(* by the dispatch (entries), of BsDsJs by BcDcJc (nested), and of the     *)
(* complete integrals (completes); the entries of s, y and cd read so far  *)
(* by the backward loop in progress (reads), and the number of terms of    *)
(* the series of Js used by BsDsJs (jterms, 0 before the series).          *)
NoReads == [s |-> {}, y |-> {}, cd |-> {}]

IncIdle ==
  [pc |-> "idle", arg |-> <<>>,
   sel |-> [br |-> "", entry |-> "", earg |-> Zero, sz |-> Zero],
   lc |-> LadderC(One), ls |-> LadderS(Zero),
   v |-> [b |-> Zero, d |-> Zero, j |-> Zero], k |-> 0, ups |-> <<0, 0>>,
   tops |-> 0, entries |-> 0, nested |-> 0, completes |-> 0,
   reads |-> NoReads, jterms |-> 0, ret |-> <<>>]

(* A call of scd2 in progress: the halved argument u0 and the count n of   *)
(* the first loop, the pair (a, b) of the duplication and c of its second  *)
(* form, the index j of the duplication loop in progress, the steps made   *)
(* in the first form (std) and in the second (alt), and whether the        *)
(* message of a too large argument was written.                            *)
DupIdle ==
  [pc |-> "idle", arg |-> <<>>, u0 |-> Zero, n |-> 0, a |-> One, b |-> Zero,
   c |-> One, j |-> 0, std |-> 0, alt |-> 0, message |-> FALSE, ret |-> <<>>]

CelIdle ==
  [pc |-> "idle", arg |-> <<>>, v |-> CelEntry(One, One, One, One), iter |-> 0,
   ret |-> Zero]

Init ==
  /\ elkSave \in {ElkSaveInit(g) : g \in Garbage}
  /\ intOv \in IntOverflowOutcomes
  /\ dchecks \in BOOLEAN
  /\ call = CallIdle
  /\ thr = [t \in Threads |-> ThreadIdle]
  /\ cel = CelIdle
  /\ inc = IncIdle
  /\ dup = DupIdle

(***************************************************************************)
(* The arguments the callers pass.                                         *)
(***************************************************************************)
GridN == 4

UnitGrid == {FDiv(FromInt(i), FromInt(GridN)) : i \in 0 .. GridN}

(* The value next above a positive x.                                       *)
NextUp(x) == IF x[1] + 1 = MantHi THEN <<MantLo, x[2] + 1>> ELSE <<x[1] + 1, x[2]>>

ElkMcs ==
  (UnitGrid \ {Zero})
    \cup {<<214748364, -32>> (* 0.05 *), <<198070406, -94>> (* 1.0e-20 *), <<173291867, -426>> (* 1.0e-120 *), Zero, NextUp(Half)}

(* mc for EllipticK: every interval of m, the ends of the range, and the   *)
(* branches below 0.1.                                                     *)
EllipticKMcs ==
  {FDiv(FromInt(i), <<167772160, -24>> (* 10 *)) : i \in 1 .. 10}
    \cup {<<267093278, -28>> (* 0.995 *), <<241591910, -29>> (* 0.45 *), <<134217728, -29>> (* 0.25 *), <<161061273, -30>> (* 0.15 *), <<257698037, -31>> (* 0.12 *),
          <<214748364, -32>> (* 0.05 *), <<198070406, -94>> (* 1.0e-20 *), <<173291867, -426>> (* 1.0e-120 *), Zero}

MaxUSteps == 12

UStep == <<187904819, -28>> (* 0.7 *)

HugeU == <<244140625, 12>> (* 1000000000000 *)

GscdUs ==
  Let([pos \in {{FMul(FromInt(k), UStep) : k \in 1 .. MaxUSteps} \cup {HugeU}} |->
  {Zero} \cup pos \cup {FNeg(u) : u \in pos}])

GscdMcs == (UnitGrid \ {Zero}) \cup {<<137438953, -37>> (* 0.001 *)}

(* u exactly on a boundary between two octants: K/2, K and 3K/2, K as elk  *)
(* returns it for mc.                                                      *)
OctantEdges(mc) ==
  {FMul(Elk(mc, ElkSaveInit(Zero)).ret, FMul(FromInt(j), Half)) : j \in 1 .. 3}

CelArgs ==
  {<<kc, nc, a, b>> : kc \in {Zero, Half, One}, nc \in {Half, One},
                      a \in {One}, b \in {Zero, One}}

BdMcs == UnitGrid \cup {<<214748364, -32>> (* 0.05 *), <<171798691, -35>> (* 0.005 *)}

(* phi in [0, pi/2]: both sides of phi_s = 1.249, and pi/2 itself.          *)
BdjPhis ==
  {Zero, Half, <<147639500, -27>> (* 1.1 *), <<167772160, -27>> (* 1.25 *), <<174483046, -27>> (* 1.3 *), <<197380590, -27>> (* 1.4706 *),
   <<201326592, -27>> (* 1.5 *), PiHalf}

BdjNs == UnitGrid

BdjMcs == UnitGrid \cup {<<137438953, -37>> (* 0.001 *), <<171798691, -35>> (* 0.005 *)}

(***************************************************************************)
(* One whole call of a function of the library, as the caller sees it: the *)
(* values returned, the saved variables left behind, the path taken, and   *)
(* whether the call returns at all.                                        *)
(***************************************************************************)
ElkPath(mc, save) ==
  ElkBranch(mc, IF save.first THEN ElkFirstBlock(save) ELSE save)

ElkLogPath(mc, save) ==
  ElkLogArg(mc, IF save.first THEN ElkFirstBlock(save) ELSE save)

ElkSelectedPath(mc, save) ==
  ElkSelected(mc, IF save.first THEN ElkFirstBlock(save) ELSE save)

ElkCentrePath(mc, save) ==
  ElkCentreOf(mc, IF save.first THEN ElkFirstBlock(save) ELSE save)

ElkCall(mc, save) ==
  Let([e \in {Elk(mc, save)} |->
  [ret |-> <<e.ret>>, save |-> e.save, returned |-> TRUE,
       path |-> [NoPath EXCEPT !.branch = ElkPath(mc, save),
                               !.logarg = ElkLogPath(mc, save),
                               !.interval = ElkSelectedPath(mc, save),
                               !.centre = ElkCentrePath(mc, save)]]])

GscdCall(u, mc, save, ov) ==
  Let([g \in {Gscd(u, mc, save, ov)} |->
  [ret |-> <<g.s, g.c, g.d>>, save |-> g.save, returned |-> TRUE,
       path |-> [NoPath EXCEPT !.branch = IF g.label2 THEN "2" ELSE "1",
                               !.octant = g.octant, !.overflow = g.overflow,
                               !.halvings = g.halvings, !.ux = g.ux,
                               !.k = g.k, !.core = g.core,
                               !.raw = g.raw, !.pre = g.pre]]])

Scd2Call(u, mc, save) ==
  Let([r \in {Scd2(u, mc)} |->
  [ret |-> <<r.s, r.c, r.d>>, save |-> save, returned |-> TRUE,
       path |-> [NoPath EXCEPT !.branch = IF r.label2 THEN "2" ELSE "1",
                               !.halvings = r.n, !.core = u]]])

EllipticKCall(mc, save) ==
  [ret |-> <<EllipticK(mc)>>, save |-> save, returned |-> TRUE,
   path |-> [NoPath EXCEPT !.branch = EllipticKBranch(mc),
                           !.logarg = EllipticKLogArg(mc),
                           !.interval = EllipticKSelected(mc),
                           !.centre = EllipticKCentreOf(mc)]]

CelCall(kc, nc, a, b, save) ==
  Let([r \in {BulirschCel(kc, nc, a, b)} |->
  [ret |-> <<r.value>>, save |-> save, returned |-> r.returned,
       path |-> NoPath]])

BDCall(mc, save) ==
  Let([r \in {FukushimaEllipticBD(mc)} |->
  [ret |-> <<r.b, r.d>>, save |-> save, returned |-> TRUE,
       path |-> [NoPath EXCEPT !.branch = BdBranch(mc)]]])

CompleteBDJCall(nc, mc, save) ==
  Let([r \in {CompleteBDJ(nc, mc)} |->
  [ret |-> <<r.b, r.d, r.j>>, save |-> save, returned |-> r.returned,
       path |-> NoPath]])

BDJCall(phi, n, mc, save) ==
  Let([r \in {FukushimaEllipticBDJ(phi, n, mc)} |->
  [ret |-> <<r.b, r.d, r.j>>, save |-> save, returned |-> r.returned,
       path |-> [NoPath EXCEPT !.branch = r.branch, !.levels = r.levels,
                               !.overrun = r.overrun, !.entries = r.entries,
                               !.completes = r.completes]]])

TBranchOf(t, h) == TBranch(TZ(t, h), FAbs(TZ(t, h)), 1)

TCall(t, h, save) ==
  [ret |-> <<FukushimaT(t, h)>>, save |-> save, returned |-> TRUE,
   path |-> [NoPath EXCEPT
               !.branch = IF TBranchOf(t, h) = -1 THEN "atan"
                          ELSE IF TBranchOf(t, h) = -2 THEN "atanh"
                          ELSE "maclaurin",
               !.z = TZ(t, h),
               !.degree = IF TBranchOf(t, h) < 0 THEN 0 ELSE TBranchOf(t, h),
               !.radicand = TRadicand(TBranchOf(t, h), h)]]

(* How a call ends whose ladder has no room for the pass its loop wants.   *)
(* DCHECK_LT(i, max_transformations) ends the process ("failed") where it  *)
(* is compiled in; elsewhere the pass writes past the end of the arrays,   *)
(* which is undefined: the call may return anything or not return.         *)
OverrunEndings ==
  IF dchecks THEN {[pc |-> "failed", ret |-> <<>>]}
  ELSE {[pc |-> "hung", ret |-> <<>>]}
         \cup {[pc |-> "done", ret |-> <<g, g, g>>] : g \in Garbage}

(* How a call with the outcome r ends: it returns ("done") or never does   *)
(* ("hung"), unless a ladder overran.                                      *)
Endings(r) ==
  IF r.path.overrun THEN OverrunEndings
  ELSE {[pc |-> IF r.returned THEN "done" ELSE "hung", ret |-> r.ret]}

(* The caller calls fn(arg); r is the call's outcome.                      *)
Invoke(fn, arg, r) ==
  /\ call.pc = "idle"
  /\ \E e \in Endings(r) :
       call' = [pc |-> e.pc, fn |-> fn, arg |-> arg, ret |-> e.ret,
                path |-> r.path]
  /\ elkSave' = r.save
  /\ UNCHANGED <<intOv, dchecks, thr, cel, inc, dup>>

CallElk == \E mc \in ElkMcs : Invoke("elk", <<mc>>, ElkCall(mc, elkSave))

CallEllipticK ==
  \E mc \in EllipticKMcs :
    Invoke("EllipticK", <<mc>>, EllipticKCall(mc, elkSave))

CallGscd ==
  \E mc \in GscdMcs : \E u \in GscdUs \cup OctantEdges(mc) :
    Invoke("Gscd", <<u, mc>>, GscdCall(u, mc, elkSave, intOv))

CallCel ==
  \E arg \in CelArgs :
    Invoke("BulirschCel", arg,
           CelCall(arg[1], arg[2], arg[3], arg[4], elkSave))

CallBD ==
  \E mc \in BdMcs : Invoke("FukushimaEllipticBD", <<mc>>, BDCall(mc, elkSave))

CallCompleteBDJ ==
  \E n \in BdjNs, mc \in BdjMcs :
    Invoke("CompleteBDJ", <<FSub(One, n), mc>>,
           CompleteBDJCall(FSub(One, n), mc, elkSave))

BDJSample == {Half, PiHalf} \X {Zero, Half} \X {Half, One}

BDJGrid == BdjPhis \X BdjNs \X BdjMcs

(* The inputs of the incomplete integrals: a sample in sequential use of   *)
(* the whole library, the whole grid once the other integrals have been    *)
(* called.                                                                 *)
CallBDJ(inputs) ==
  \E arg \in inputs :
    Invoke("FukushimaEllipticBDJ", arg,
           BDJCall(arg[1], arg[2], arg[3], elkSave))

(* The caller takes the result; the next call may start.                   *)
Return ==
  /\ call.pc = "done"
  /\ call' = CallIdle
  /\ UNCHANGED <<elkSave, intOv, dchecks, thr, cel, inc, dup>>

(* Sequential use of the whole library.                                    *)
Next ==
  \/ CallElk
  \/ CallEllipticK
  \/ CallGscd
  \/ CallCel
  \/ CallBD
  \/ CallBDJ(BDJSample)
  \/ Return

Spec == Init /\ [][Next]_vars

(* Sequential use of the integrals B, D, J over the whole grid.            *)
NextBDJ ==
  \/ CallBD
  \/ CallCompleteBDJ
  \/ CallBDJ(BDJGrid)
  \/ Return

SpecBDJ == Init /\ [][NextBDJ]_vars

(***************************************************************************)
(* Concurrent callers of elk.  Each thread runs elk statement by           *)
(* statement; the saved variables are shared, everything else is the       *)
(* thread's own.                                                           *)
(***************************************************************************)
ConcMcs == {Half, <<214748364, -32>> (* 0.05 *)}

MaxConcCalls == 2

Step(t, pc, rec) ==
  /\ thr[t].pc = pc
  /\ thr' = [thr EXCEPT ![t] = rec]
  /\ UNCHANGED <<intOv, dchecks, call, cel, inc, dup>>

(* Thread t calls elk(mc).                                                 *)
CCall(t) ==
  \E mc \in ConcMcs :
    /\ thr[t].calls < MaxConcCalls
    /\ Step(t, "idle", [pc |-> "first", mc |-> mc, val |-> Zero,
                        calls |-> thr[t].calls + 1])
    /\ UNCHANGED elkSave

(* if(first)                                                               *)
CFirst(t) ==
  /\ Step(t, "first",
          [thr[t] EXCEPT !.pc = IF elkSave.first THEN "init" ELSE "test"])
  /\ UNCHANGED elkSave

(* first=.FALSE.                                                           *)
CInitFirst(t) ==
  /\ Step(t, "init", [thr[t] EXCEPT !.pc = "initrest"])
  /\ elkSave' = [elkSave EXCEPT !.first = FALSE]

(* mcold=1.0 ... TINY=1.d-99                                               *)
CInitRest(t) ==
  /\ Step(t, "initrest", [thr[t] EXCEPT !.pc = "test"])
  /\ elkSave' = ElkFirstBlock(elkSave)

(* The if-chain: the tests, and the value of every branch but the cached   *)
(* one, whose elk=elkold is a later read of the saved variable.            *)
CTest(t) ==
  /\ Step(t, "test",
          IF ElkBranch(thr[t].mc, elkSave) = "cache"
          THEN [thr[t] EXCEPT !.pc = "readold"]
          ELSE [thr[t] EXCEPT !.pc = "storemc",
                              !.val = ElkValue(thr[t].mc, elkSave)])
  /\ UNCHANGED elkSave

(* elk=elkold                                                              *)
CReadOld(t) ==
  /\ Step(t, "readold", [thr[t] EXCEPT !.pc = "storemc", !.val = elkSave.elkold])
  /\ UNCHANGED elkSave

(* mcold=mc                                                                *)
CStoreMc(t) ==
  /\ Step(t, "storemc", [thr[t] EXCEPT !.pc = "storeelk"])
  /\ elkSave' = [elkSave EXCEPT !.mcold = thr[t].mc]

(* elkold=elk; return                                                      *)
CStoreElk(t) ==
  /\ Step(t, "storeelk", [thr[t] EXCEPT !.pc = "done"])
  /\ elkSave' = [elkSave EXCEPT !.elkold = thr[t].val]

(* The caller takes the value; the thread may call again.                  *)
CReturn(t) ==
  /\ Step(t, "done", [thr[t] EXCEPT !.pc = "idle"])
  /\ UNCHANGED elkSave

NextConc ==
  \E t \in Threads :
    \/ CCall(t)
    \/ CFirst(t)
    \/ CInitFirst(t)
    \/ CInitRest(t)
    \/ CTest(t)
    \/ CReadOld(t)
    \/ CStoreMc(t)
    \/ CStoreElk(t)
    \/ CReturn(t)

SpecConc == Init /\ [][NextConc]_vars

(***************************************************************************)
(* One call of BulirschCel at a time, one pass of its loop per step.       *)
(***************************************************************************)
CelIterCap == 104

CelStepArgs ==
  {<<kc, nc, a, b>> : kc \in {Zero, <<137438953, -37>> (* 0.001 *), Half, One, <<200416813, 969>> (* 1e300 *), NaN},
                      nc \in {Half, One, <<-134217728, -28>> (* -0.5 *)}, a \in {One, Two},
                      b \in {Zero, One}}

(* The code before the loop.                                               *)
CelStarted(arg) ==
  Let([v \in {CelEntry(arg[1], arg[2], arg[3], arg[4])} |->
  [pc |-> IF v.undefined THEN "done" ELSE "loop", arg |-> arg, v |-> v,
       iter |-> 0, ret |-> IF v.undefined THEN NaN ELSE Zero]])

(* One pass of the loop: it leaves by break and returns, or goes round.    *)
CelStepped(c) ==
  Let([w \in {CelPass(c.v)} |->
  IF w.break
      THEN [c EXCEPT !.pc = "done", !.iter = c.iter + 1, !.ret = CelValue(w),
                     !.v = [x \in DOMAIN c.v |-> w[x]]]
      ELSE [c EXCEPT !.iter = c.iter + 1, !.v = [x \in DOMAIN c.v |-> w[x]]]])

CelStart ==
  \E arg \in CelStepArgs :
    /\ cel.pc = "idle"
    /\ cel' = CelStarted(arg)
    /\ UNCHANGED <<elkSave, intOv, dchecks, call, thr, inc, dup>>

CelIterate ==
  /\ cel.pc = "loop"
  /\ cel.iter < CelIterCap
  /\ cel' = CelStepped(cel)
  /\ UNCHANGED <<elkSave, intOv, dchecks, call, thr, inc, dup>>

CelReturn ==
  /\ cel.pc = "done"
  /\ cel' = CelIdle
  /\ UNCHANGED <<elkSave, intOv, dchecks, call, thr, inc, dup>>

NextCel ==
  \/ CelStart
  \/ CelIterate
  \/ CelReturn

SpecCel == Init /\ [][NextCel]_vars

(***************************************************************************)
(* Calls with arguments of any value, inside the documented ranges and     *)
(* outside them, and calls of the core routine scd2 itself.                *)
(***************************************************************************)
AnyMcs == {<<-134217728, -28>> (* -0.5 *), Zero, Half, <<201326592, -27>> (* 1.5 *)}

AnyUs == {Half, Two}

AnyPhis == {<<-210828714, -27>> (* -pi/2 *), <<-134217728, -28>> (* -0.5 *), Half, Two}

AnyNs == {<<-134217728, -28>> (* -0.5 *), Half, <<201326592, -27>> (* 1.5 *)}

(* u for scd2: inside [0, K/2), and too large for 21 halvings.             *)
Scd2Us == {Half, <<163840000, -14>> (* 10000 *)}

AnyElk == \E mc \in AnyMcs : Invoke("elk", <<mc>>, ElkCall(mc, elkSave))

AnyEllipticK ==
  \E mc \in AnyMcs : Invoke("EllipticK", <<mc>>, EllipticKCall(mc, elkSave))

AnyBD ==
  \E mc \in AnyMcs :
    Invoke("FukushimaEllipticBD", <<mc>>, BDCall(mc, elkSave))

AnyGscd ==
  \E u \in AnyUs, mc \in AnyMcs :
    Invoke("Gscd", <<u, mc>>, GscdCall(u, mc, elkSave, intOv))

AnyBDJ == CallBDJ(AnyPhis \X AnyNs \X AnyMcs)

AnyScd2 ==
  \E u \in Scd2Us, mc \in {Half, One} :
    Invoke("scd2", <<u, mc>>, Scd2Call(u, mc, elkSave))

NextAny ==
  \/ AnyElk
  \/ AnyEllipticK
  \/ AnyBD
  \/ AnyGscd
  \/ AnyBDJ
  \/ AnyScd2
  \/ Return

SpecAny == Init /\ [][NextAny]_vars

(***************************************************************************)
(* One call of FukushimaEllipticBDJ(phi, n, mc) at a time, one             *)
(* transformation per step.                                                *)
(***************************************************************************)
IncArgs ==
  (BdjPhis \X {Zero, Half, One} \X BdjMcs) \cup {<<<<-210828714, -27>> (* -pi/2 *), Half, Zero>>}

(* The dispatch has selected its branch and called the entry routine.      *)
IncStarted(arg) ==
  Let([sel \in {BDJDispatch(arg[1], arg[2], arg[3])} |->
  IF sel.entry = "s"
      THEN [IncIdle EXCEPT !.pc = "halfS", !.arg = arg, !.sel = sel,
                           !.ls = LadderS(sel.earg), !.tops = 1,
                           !.entries = 1]
      ELSE [IncIdle EXCEPT !.pc = "halfC", !.arg = arg, !.sel = sel,
                           !.lc = LadderC(sel.earg), !.tops = 1,
                           !.entries = 1]])

IncM(c) == FSub(One, c.arg[3])

IncH(c) == LadderH(c.arg[2], IncM(c))

(* The dispatch after the entry routine has returned, in the two branches  *)
(* that subtract from the complete integrals.                              *)
IncComplemented(c) ==
  Let([nc \in {FSub(One, c.arg[2])} |->
  Let([cplt \in {CompleteBDJ(nc, c.arg[3])} |->
  Let([r \in {Complement(c.v, cplt, c.sel.sz, nc,
                      FMul(FMul(c.arg[2], nc), FSub(c.arg[2], IncM(c))))} |->
  IF cplt.returned
      THEN [c EXCEPT !.pc = "done", !.completes = c.completes + 1, !.v = r,
                     !.ret = <<r.b, r.d, r.j>>]
      ELSE [c EXCEPT !.pc = "hung", !.completes = c.completes + 1]])])])

(* The entries read by a pass of the backward loop at level k, added to    *)
(* those read before.                                                      *)
IncRead(reads, k) ==
  [s |-> reads.s \cup {DoubleReads(k).s},
   y |-> reads.y \cup {DoubleReads(k).ya, DoubleReads(k).yb},
   cd |-> reads.cd \cup {DoubleReads(k).cd}]

(* The values after a pass of the backward loop at level k: an entry that  *)
(* was never assigned holds anything.                                      *)
IncDoubledValues(k, v, l, n, h) ==
  IF DoubleReadable(k, l) THEN {DoubleStep(k, v, l, n, h)}
  ELSE {[b |-> g, d |-> g, j |-> g] : g \in Garbage}

(* The call c after a pass of the backward loop of the routine of ladder   *)
(* l, x = 1 for BcDcJc and 2 for BsDsJs.                                   *)
IncDoubled(c, l, x) ==
  {[c EXCEPT !.k = c.k - 1, !.ups[x] = c.ups[x] + 1,
             !.reads = IncRead(c.reads, c.k), !.v = v] :
     v \in IncDoubledValues(c.k, c.v, l, c.arg[2], IncH(c))}

IncStep(c) ==
  /\ inc' = c
  /\ UNCHANGED <<elkSave, intOv, dchecks, call, thr, cel, dup>>

IncStart ==
  \E arg \in IncArgs :
    /\ inc.pc = "idle"
    /\ IncStep(IncStarted(arg))

(* for (; x_i <= xS; ++i): one pass.                                       *)
IncHalfC ==
  /\ inc.pc = "halfC"
  /\ MoreC(inc.lc)
  /\ inc.lc.i < max_transformations
  /\ IncStep([inc EXCEPT !.lc = HalfStepC(inc.lc, inc.arg[3], IncM(inc))])

(* The loop of BcDcJc has ended: FukushimaEllipticBsDsJs(s[i], ...).        *)
IncSwitch ==
  /\ inc.pc = "halfC"
  /\ ~MoreC(inc.lc)
  /\ IncStep([inc EXCEPT !.pc = "halfS",
                         !.ls = LadderS(inc.lc.ss[inc.lc.i + 1]),
                         !.nested = inc.nested + 1])

(* for (; y_i >= yB; ++i): one pass.                                       *)
IncHalfS ==
  /\ inc.pc = "halfS"
  /\ MoreS(inc.ls)
  /\ inc.ls.i < max_transformations
  /\ IncStep([inc EXCEPT !.ls = HalfStepS(inc.ls, IncM(inc))])

(* A loop wants a pass with i = max_transformations.                       *)
IncOverrun ==
  /\ \/ inc.pc = "halfC" /\ MoreC(inc.lc) /\ inc.lc.i = max_transformations
     \/ inc.pc = "halfS" /\ MoreS(inc.ls) /\ inc.ls.i = max_transformations
  /\ \E e \in OverrunEndings : IncStep([inc EXCEPT !.pc = e.pc, !.ret = e.ret])

(* The loop of BsDsJs has ended: the Maclaurin series.                     *)
IncSeries ==
  /\ inc.pc = "halfS"
  /\ ~MoreS(inc.ls)
  /\ IncStep([inc EXCEPT !.pc = "doubleS", !.k = inc.ls.i,
                         !.jterms = JsTerms(inc.ls.yi, 1),
                         !.v = SeriesS(inc.ls, inc.arg[2], IncM(inc))])

(* for (int k = i; k > 0; --k) of BsDsJs: one pass.                        *)
IncDoubleS ==
  /\ inc.pc = "doubleS"
  /\ inc.k > 0
  /\ \E c \in IncDoubled(inc, inc.ls, 2) : IncStep(c)

(* BsDsJs returns, to BcDcJc or to the dispatch.                           *)
IncEndS ==
  /\ inc.pc = "doubleS"
  /\ inc.k = 0
  /\ IncStep(IF inc.sel.entry = "c"
             THEN [inc EXCEPT !.pc = "doubleC", !.k = inc.lc.i,
                              !.reads = NoReads]
             ELSE [inc EXCEPT !.pc = "top"])

(* for (int k = i; k > 0; --k) of BcDcJc: one pass.                        *)
IncDoubleC ==
  /\ inc.pc = "doubleC"
  /\ inc.k > 0
  /\ \E c \in IncDoubled(inc, inc.lc, 1) : IncStep(c)

(* BcDcJc returns to the dispatch.                                         *)
IncEndC ==
  /\ inc.pc = "doubleC"
  /\ inc.k = 0
  /\ IncStep([inc EXCEPT !.pc = "top"])

(* The branches that return what the entry routine computed.               *)
IncPlain ==
  /\ inc.pc = "top"
  /\ inc.sel.br \in {"s", "c"}
  /\ IncStep([inc EXCEPT !.pc = "done",
                         !.ret = <<inc.v.b, inc.v.d, inc.v.j>>])

(* The branches that call FukushimaEllipticBDJ(nc, mc, bc, dc, jc) and     *)
(* subtract.                                                               *)
IncComplement ==
  /\ inc.pc = "top"
  /\ inc.sel.br \in {"sc", "cc"}
  /\ IncStep(IncComplemented(inc))

IncReturn ==
  /\ inc.pc = "done"
  /\ IncStep(IncIdle)

NextInc ==
  \/ IncStart
  \/ IncHalfC
  \/ IncSwitch
  \/ IncHalfS
  \/ IncOverrun
  \/ IncSeries
  \/ IncDoubleS
  \/ IncEndS
  \/ IncDoubleC
  \/ IncEndC
  \/ IncPlain
  \/ IncComplement
  \/ IncReturn

SpecInc == Init /\ [][NextInc]_vars

(***************************************************************************)
(* Calls of FukushimaT by itself.                                          *)
(***************************************************************************)

(* t and h of the call FukushimaT(t, h) made after the complete integrals  *)
(* by the two branches of FukushimaEllipticBDJ(phi, n, mc) that subtract.  *)
ComplementT(phi, n, mc) ==
  <<FDiv(BDJDispatch(phi, n, mc).sz, FSub(One, n)),
    FMul(FMul(n, FSub(One, n)), FSub(n, FSub(One, mc)))>>

TTs ==
  {Zero, <<144115188, -57>> (* 1.0e-9 *), <<175921860, -44>> (* 0.00001 *), <<137438953, -37>> (* 0.001 *), <<171798691, -34>> (* 0.01 *), <<171798691, -33>> (* 0.02 *),
   <<171798691, -32>> (* 0.04 *), <<150323855, -31>> (* 0.07 *), <<214748364, -31>> (* 0.1 *), <<139586437, -30>> (* 0.13 *), <<182536110, -30>> (* 0.17 *), <<214748364, -30>> (* 0.2 *),
   <<246960619, -30>> (* 0.23 *), <<139586437, -29>> (* 0.26 *), <<161061273, -29>> (* 0.3 *), Half}

THs == {<<-134217728, -27>> (* -1.0 *), <<-134217728, -28>> (* -0.5 *), Zero, Half, One}

(* At the bounds themselves: t = 1 and h = -z.                             *)
TEdges == {<<One, h>> : h \in {TUpper[10], FNeg(TUpper[10]), TUpper[13],
                               FNeg(TUpper[13])}}

TArgs ==
  (TTs \X THs) \cup TEdges
    \cup {ComplementT(a[1], a[2], a[3]) :
            a \in {<<174483046, -27>> (* 1.3 *), PiHalf} \X {Zero, Half, One} \X {Half, One}}

CallT ==
  \E a \in TArgs : Invoke("FukushimaT", a, TCall(a[1], a[2], elkSave))

NextT ==
  \/ CallT
  \/ Return

SpecT == Init /\ [][NextT]_vars

(***************************************************************************)
(* One call of scd2(u, mc) at a time, one pass of a loop per step.         *)
(***************************************************************************)

(* The arguments Gscd hands to scd2 over its grid, and arguments of a      *)
(* direct call: below uT, at and above uA, and too large for 21 halvings.  *)
DupArgs ==
  {<<Gscd(u, mc, ElkSaveInit(Zero), <<268435455, 3>> (* 2147483647 *)).core, mc>> :
     u \in {FMul(FromInt(k), UStep) : k \in 1 .. MaxUSteps}, mc \in GscdMcs}
    \cup {<<Gscd(HugeU, Half, ElkSaveInit(Zero), ov).core, Half>> :
            ov \in IntOverflowOutcomes}
    \cup {<<<<137438953, -37>> (* 0.001 *), Half>>, <<<<241591910, -27>> (* 1.8 *), <<137438953, -37>> (* 0.001 *)>>,
          <<<<147639500, -26>> (* 2.2 *), <<137438953, -37>> (* 0.001 *)>>, <<<<201326592, -26>> (* 3 *), <<137438953, -37>> (* 0.001 *)>>,
          <<<<134217728, -25>> (* 4 *), <<140737488, -47>> (* 0.000001 *)>>, <<<<251658240, -25>> (* 7.5 *), <<147573952, -67>> (* 1.0e-12 *)>>,
          <<<<163840000, -14>> (* 10000 *), One>>}

DupM(c) == FSub(One, c.arg[2])

(* The same with the duplication loop started at j = 0.                    *)
DupAtLabel1Early(c, message) ==
  [c EXCEPT !.pc = "first", !.message = message, !.a = One,
            !.b = Scd2Series(c.u0, DupM(c)), !.j = 0]

(* goto 1, or the end of do n=0,20 with its message: the series at label 1 *)
DupAtLabel1(c, message) ==
  [c EXCEPT !.pc = "first", !.message = message, !.a = One,
            !.b = Scd2Series(c.u0, DupM(c)), !.j = 1]

(* if(u < uA): the first loop without the test.                            *)
DupTests(c) == ~FLt(c.arg[1], Scd2UA(c.arg[2]))

DupStd(c) ==
  [c EXCEPT !.a = Scd2Std(c.a, c.b, DupM(c)).a,
            !.b = Scd2Std(c.a, c.b, DupM(c)).b, !.j = c.j + 1,
            !.std = c.std + 1]

(* One pass of do i=j,n.                                                   *)
DupAlt(c) ==
  [c EXCEPT !.c = Scd2Alt(c.c, c.a, DupM(c), c.arg[2]).c,
            !.a = Scd2Alt(c.c, c.a, DupM(c), c.arg[2]).a, !.j = c.j + 1,
            !.alt = c.alt + 1]

DupResult(c, v) == [c EXCEPT !.pc = "done", !.ret = <<v.s, v.c, v.d>>]

DupTo(c) ==
  /\ dup' = c
  /\ UNCHANGED <<elkSave, intOv, dchecks, call, thr, cel, inc>>

DupStart ==
  \E arg \in DupArgs :
    /\ dup.pc = "idle"
    /\ DupTo([DupIdle EXCEPT !.pc = "halve", !.arg = arg, !.u0 = arg[1]])

(* One pass of do n=0,20 that does not leave the loop: u0=u0*0.5           *)
DupHalve ==
  /\ dup.pc = "halve"
  /\ dup.n <= MaxHalvings
  /\ ~FLt(dup.u0, Scd2UT(DupM(dup)))
  /\ DupTo([dup EXCEPT !.u0 = FMul(dup.u0, Half), !.n = dup.n + 1])

(* if(u0 < uT) goto 1                                                      *)
DupReduced ==
  /\ dup.pc = "halve"
  /\ dup.n <= MaxHalvings
  /\ FLt(dup.u0, Scd2UT(DupM(dup)))
  /\ DupTo(DupAtLabel1(dup, FALSE))

(* The loop has ended: the message "(scd2) Too large input argument" is    *)
(* written and the routine goes on at label 1.                             *)
DupTooLarge ==
  /\ dup.pc = "halve"
  /\ dup.n > MaxHalvings
  /\ DupTo(DupAtLabel1(dup, TRUE))

(* One pass of do j=1,n in the first form.                                 *)
DupFirst ==
  /\ dup.pc = "first"
  /\ dup.j <= dup.n
  /\ ~(DupTests(dup) /\ Scd2Test(dup.a, dup.b, DupM(dup)))
  /\ DupTo(DupStd(dup))

(* if(z < my*2.0) goto 2, and the first pass of do i=j,n.                  *)
DupSwitch ==
  /\ dup.pc = "first"
  /\ dup.j <= dup.n
  /\ DupTests(dup)
  /\ Scd2Test(dup.a, dup.b, DupM(dup))
  /\ DupTo(DupAlt([dup EXCEPT !.pc = "second", !.c = FSub(dup.a, dup.b)]))

(* One further pass of do i=j,n.                                           *)
DupSecond ==
  /\ dup.pc = "second"
  /\ dup.j <= dup.n
  /\ DupTo(DupAlt(dup))

(* The first loop has ended: b=b/a ... return                              *)
DupEndFirst ==
  /\ dup.pc = "first"
  /\ dup.j > dup.n
  /\ DupTo(DupResult(dup, Scd2End1(dup.a, dup.b, DupM(dup))))

(* The second loop has ended: c=c/a ... return                             *)
DupEndSecond ==
  /\ dup.pc = "second"
  /\ dup.j > dup.n
  /\ DupTo(DupResult(dup, Scd2End2(dup.c, dup.a, DupM(dup), dup.arg[2])))

DupReturn ==
  /\ dup.pc = "done"
  /\ DupTo(DupIdle)

NextDup ==
  \/ DupStart
  \/ DupHalve
  \/ DupReduced
  \/ DupTooLarge
  \/ DupFirst
  \/ DupSwitch
  \/ DupSecond
  \/ DupEndFirst
  \/ DupEndSecond
  \/ DupReturn

SpecDup == Init /\ [][NextDup]_vars


(***************************************************************************)
(* The claims.                                                             *)
(***************************************************************************)

(* K(mc) as elk computes it when no call came before.                      *)
KOf(mc) == Elk(mc, ElkSaveInit(Zero)).ret

(* x and y are finite and differ by at most tol.                           *)
Close(x, y, tol) ==
  IsFinite(x) /\ IsFinite(y) /\ FLe(FAbs(FSub(x, y)), tol)

(* x and y are finite and differ by at most tol times the larger.          *)
RelClose(x, y, tol) ==
  /\ IsFinite(x)
  /\ IsFinite(y)
  /\ FLe(FAbs(FSub(x, y)),
         FMul(tol, IF FLt(FAbs(x), FAbs(y)) THEN FAbs(y) ELSE FAbs(x)))

(* The tolerances of the identities, of the periodicity and of the         *)
(* agreement of two routes, in a format of MantBits = 28 bits.             *)
IdentityTol == <<134217728, -47>> (* 2^-20 *)
PeriodTol == <<134217728, -43>> (* 2^-16 *)
AgreeTol == <<134217728, -45>> (* 2^-18 *)

(* C1: under every interleaving of concurrent callers of elk, each call    *)
(* that has returned - a first call or a later one - returned K of its own *)
(* mc.                                                                     *)
C1_EachCallReturnsOwnK ==
  \A t \in Threads : thr[t].pc = "done" => thr[t].val = KOf(thr[t].mc)

(* C2: no call writes anything that outlives it: the saved variables,      *)
(* which are all a later call can read, are the same after every step.     *)
C2_NoPersistentWrites == [][elkSave' = elkSave]_vars

(* The call fn(arg) made first of all, the saved variables holding g.      *)
FreshCall(fn, arg, g, ov) ==
  IF fn = "elk" THEN ElkCall(arg[1], ElkSaveInit(g))
  ELSE IF fn = "EllipticK" THEN EllipticKCall(arg[1], ElkSaveInit(g))
  ELSE IF fn = "Gscd" THEN GscdCall(arg[1], arg[2], ElkSaveInit(g), ov)
  ELSE IF fn = "BulirschCel"
       THEN CelCall(arg[1], arg[2], arg[3], arg[4], ElkSaveInit(g))
  ELSE IF fn = "FukushimaEllipticBD" THEN BDCall(arg[1], ElkSaveInit(g))
  ELSE BDJCall(arg[1], arg[2], arg[3], ElkSaveInit(g))

(* C3: in sequential use the values a call returns are those the same call *)
(* returns when it is the very first, whatever calls came before it.       *)
C3_SequentialDeterminism ==
  call.pc = "done" =>
    \A g \in Garbage : call.ret = FreshCall(call.fn, call.arg, g, intOv).ret

(* A call of elk answered from the saved mcold and elkold.                 *)
C3_Witness ==
  call.pc = "done" /\ call.fn = "elk" /\ call.path.branch = "cache"

(* A call of Gscd with mc in (0, 1] has returned.                          *)
GscdReturned ==
  /\ call.pc = "done"
  /\ call.fn = "Gscd"
  /\ FGt(call.arg[2], Zero)
  /\ FLe(call.arg[2], One)

(* C4: for mc in (0, 1] and every u, the triple Gscd returns satisfies     *)
(* s^2 + c^2 = 1 and d^2 + (1 - mc) s^2 = 1.                               *)
C4_Identities ==
  GscdReturned =>
    LET s == call.ret[1]
        c == call.ret[2]
        d == call.ret[3]
        m == FSub(One, call.arg[2])
    IN  /\ Close(FAdd(FMul(s, s), FMul(c, c)), One, IdentityTol)
        /\ Close(FAdd(FMul(d, d), FMul(m, FMul(s, s))), One, IdentityTol)

(* C5: for mc in (0, 1] and every u, Gscd(u + 4 K(mc), mc) returns the     *)
(* triple Gscd(u, mc) returned.                                            *)
C5_Periodicity ==
  GscdReturned =>
    LET k == Elk(call.arg[2], elkSave).ret
        r == GscdCall(FAdd(call.arg[1], FMul(<<134217728, -25>> (* 4 *), k)), call.arg[2],
                      elkSave, intOv).ret
    IN  \A i \in 1 .. 3 : Close(r[i], call.ret[i], PeriodTol)

(* C6: for mc in (0, 1] and every u, Gscd(-u, mc) returns (-s, c, d) where *)
(* Gscd(u, mc) returned (s, c, d).                                         *)
C6_Parity ==
  GscdReturned =>
    GscdCall(FNeg(call.arg[1]), call.arg[2], elkSave, intOv).ret
      = <<FNeg(call.ret[1]), call.ret[2], call.ret[3]>>

(* Gscd has returned for a negative u reduced to an octant, with s # 0.    *)
C6_Witness ==
  /\ GscdReturned
  /\ FLt(call.arg[1], Zero)
  /\ call.path.octant \in 1 .. 8
  /\ IsFinite(call.ret[1])
  /\ call.ret[1] # Zero

(* A call of the incomplete integrals has returned.                        *)
BDJReturned == call.pc = "done" /\ call.fn = "FukushimaEllipticBDJ"

(* C7: at phi = pi/2 the incomplete integrals are the complete ones: for   *)
(* n and mc in [0, 1], FukushimaEllipticBDJ(pi/2, n, mc) returns what the  *)
(* complete overload returns for nc = 1 - n and mc.                        *)
C7_CompleteAtPiHalf ==
  BDJReturned /\ call.arg[1] = PiHalf =>
    LET k == CompleteBDJCall(FSub(One, call.arg[2]), call.arg[3], elkSave)
    IN  /\ k.returned
        /\ \A i \in 1 .. 3 : RelClose(call.ret[i], k.ret[i], AgreeTol)

(* C8: for phi in [0, pi/2], n and mc in [0, 1], the call returns, and B,  *)
(* D and J are finite.                                                     *)
C8_AllFinite ==
  call.fn = "FukushimaEllipticBDJ" =>
    call.pc = "done" /\ \A i \in 1 .. 3 : IsFinite(call.ret[i])

(* C9: BulirschCel with kc = 0 returns NaN before any pass of the loop     *)
(* when b # 0; when b = 0 it enters the loop with kc = 1e-14 and returns   *)
(* what the loop computes from there.                                      *)
C9_CelAtKcZero ==
  cel.pc # "idle" /\ FEq(cel.arg[1], Zero) =>
    IF FEq(cel.arg[4], Zero)
    THEN /\ ~cel.v.undefined
         /\ cel.iter = 0 => cel.v.kc = CelKcNearly0
         /\ cel.pc = "done" =>
              /\ cel.iter >= 1
              /\ cel.ret = BulirschCel(CelKcNearly0, cel.arg[2], cel.arg[3],
                                       cel.arg[4]).value
    ELSE cel.pc = "done" /\ cel.iter = 0 /\ IsNaN(cel.ret)

(* BulirschCel has returned NaN for kc = 0, b # 0.                         *)
C9_Witness ==
  /\ cel.pc = "done"
  /\ FEq(cel.arg[1], Zero)
  /\ ~FEq(cel.arg[4], Zero)
  /\ IsNaN(cel.ret)

(* C10: the loop of BulirschCel makes at most 100 passes in any call.      *)
C10_BoundedPasses == cel.iter <= 100

(* C11: a call of scd2 whose loop of halvings ran to its end without       *)
(* bringing u0 below uT (more than 20 halvings would be needed) ends as a  *)
(* failure; it does not return a triple.                                   *)
C11_TooLargeFailsFast ==
  call.fn = "scd2" /\ call.path.halvings > MaxHalvings => call.pc = "failed"

(* An argument of the call fn(arg) lies outside its documented range.      *)
OutOfRange(fn, arg) ==
  IF fn \in {"elk", "EllipticK", "FukushimaEllipticBD"}
  THEN FLt(arg[1], Zero) \/ FGt(arg[1], One)
  ELSE IF fn = "Gscd" THEN FLe(arg[2], Zero)
  ELSE IF fn = "FukushimaEllipticBDJ"
  THEN \/ FLt(arg[1], Zero) \/ FGt(arg[1], PiHalf)
       \/ FLt(arg[2], Zero) \/ FGt(arg[2], One)
       \/ FLt(arg[3], Zero) \/ FGt(arg[3], One)
  ELSE FALSE

(* C12: a call with a parameter outside its documented range ends in an    *)
(* assertion failure or returns a NaN; it does not return finite values.   *)
C12_OutOfRangeDetected ==
  call.pc # "idle" /\ OutOfRange(call.fn, call.arg) =>
    \/ call.pc = "failed"
    \/ call.pc = "done" /\ \E i \in DOMAIN call.ret : ~IsFinite(call.ret[i])

(* The sub-interval of m that EllipticK selects for mc: its bounds and the *)
(* centre of its expansion.  Below |m| < 1e-16 there is no expansion.      *)
EllipticKSub(mc) ==
  LET i == EllipticKInterval(FSub(One, mc), 1)
  IN  IF EllipticKBranch(mc) = "pihalf"
      THEN [lo |-> Zero, hi |-> <<241785165, -81>> (* 1.0e-16 *), centre |-> Zero]
      ELSE [lo |-> IF i = 1 THEN <<241785165, -81>> (* 1.0e-16 *) ELSE EllipticKUpper[i - 1],
            hi |-> IF i > Len(EllipticKUpper) THEN One ELSE EllipticKUpper[i],
            centre |-> EllipticKCentre[i]]

(* The same for FukushimaEllipticBD, whose centres are written in mc.      *)
BdSub(mc) ==
  LET i == BdInterval(FSub(One, mc), 1)
  IN  IF BdBranch(mc) = "m0"
      THEN [lo |-> Zero, hi |-> <<268381532, -81>> (* 1.11e-16 *), centre |-> Zero]
      ELSE IF BdBranch(mc) = "series"
      THEN [lo |-> <<268381532, -81>> (* 1.11e-16 *), hi |-> <<171798691, -34>> (* 0.01 *), centre |-> Zero]
      ELSE [lo |-> IF i = 1 THEN <<171798691, -34>> (* 0.01 *) ELSE BdUpper[i - 1],
            hi |-> IF i > Len(BdUpper) THEN One ELSE BdUpper[i],
            centre |-> FSub(One, BdCentre[i])]

(* EllipticK or FukushimaEllipticBD has returned for an mc in [0.1, 1].    *)
KOrBdReturned ==
  /\ call.pc = "done"
  /\ call.fn \in {"EllipticK", "FukushimaEllipticBD"}
  /\ FGe(call.arg[1], <<214748364, -31>> (* 0.1 *))
  /\ FLe(call.arg[1], One)

(* C13 as stated: for every mc in [0.1, 1] EllipticK and                   *)
(* FukushimaEllipticBD select the sub-interval of m with the same lower    *)
(* bound, the same upper bound and the same centre.                        *)
C13_SameSubIntervals ==
  KOrBdReturned =>
    /\ EllipticKSub(call.arg[1]).lo = BdSub(call.arg[1]).lo
    /\ EllipticKSub(call.arg[1]).hi = BdSub(call.arg[1]).hi
    /\ Close(EllipticKSub(call.arg[1]).centre, BdSub(call.arg[1]).centre,
             <<134217728, -51>> (* 2^-24 *))

(* C13 amended: the nine thresholds 0.1, ..., 0.8, 0.85 are the same in    *)
(* both functions, and for every mc in [0.1, 1] with m > 0.01 both select  *)
(* the interval with the same index, the same upper bound and the same     *)
(* centre.                                                                 *)
C13_SameThresholds ==
  /\ EllipticKUpper = BdUpper
  /\ KOrBdReturned /\ FGt(FSub(One, call.arg[1]), <<171798691, -34>> (* 0.01 *)) =>
       /\ EllipticKBranch(call.arg[1]) = "poly"
       /\ BdBranch(call.arg[1]) = "poly"
       /\ EllipticKInterval(FSub(One, call.arg[1]), 1)
            = BdInterval(FSub(One, call.arg[1]), 1)
       /\ EllipticKSub(call.arg[1]).hi = BdSub(call.arg[1]).hi
       /\ Close(EllipticKSub(call.arg[1]).centre, BdSub(call.arg[1]).centre,
                <<134217728, -51>> (* 2^-24 *))

(* EllipticK has returned for an m on the threshold 0.5.                   *)
C13_Witness ==
  /\ KOrBdReturned
  /\ call.fn = "EllipticK"
  /\ FSub(One, call.arg[1]) = EllipticKUpper[5]
  /\ call.path.branch = "poly"

(* C14: BulirschCel(kc = 1, nc = 1, a = 1, b = 1) enters its loop with     *)
(* p = 1 and b = 1, leaves it in the first pass with a m + b equal to      *)
(* m (m + p), and returns pi / 2 exactly.                                  *)
C14_CelOfOnes ==
  cel.pc # "idle" /\ cel.arg = <<One, One, One, One>> =>
    /\ cel.iter <= 1
    /\ cel.iter = 0 => cel.pc = "loop" /\ cel.v.p = One /\ cel.v.b = One
    /\ cel.iter = 1 =>
         /\ cel.pc = "done"
         /\ FAdd(FMul(cel.v.a, cel.v.m), cel.v.b)
              = FMul(cel.v.m, FAdd(cel.v.m, cel.v.p))
         /\ cel.ret = PiHalf

(* The call with kc = nc = a = b = 1 has returned.                         *)
C14_Witness ==
  cel.pc = "done" /\ cel.arg = <<One, One, One, One>> /\ cel.iter = 1

(* C15: elk and EllipticK return pi / 2 exactly when |1 - mc| < 1e-16,     *)
(* whatever calls came before.                                             *)
C15_PiHalfAtOne ==
  /\ call.pc = "done"
  /\ call.fn \in {"elk", "EllipticK"}
  /\ FLt(FAbs(FSub(One, call.arg[1])), <<241785165, -81>> (* 1.0e-16 *))
  => call.ret[1] = PiHalf

(* C16: for mc in (0, 1] and every u, the argument Gscd hands to scd2 lies *)
(* in [0, K(mc)/2), on the direct path and in every octant.                *)
C16_CoreArgumentInRange ==
  GscdReturned =>
    /\ FGe(call.path.core, Zero)
    /\ FLt(call.path.core, FMul(call.path.k, Half))

(* C17: for mc in (0, 1] and every |u| >= 0.785 the quotient ux / 4K fits  *)
(* an int and the reduced argument lies in [0, 4K).                        *)
C17_ReductionInRange ==
  GscdReturned /\ FGe(FAbs(call.arg[1]), <<210721832, -28>> (* 0.785 *)) =>
    /\ ~call.path.overflow
    /\ FGe(call.path.ux, Zero)
    /\ FLt(call.path.ux, FMul(call.path.k, <<134217728, -25>> (* 4 *)))

(***************************************************************************)
(* C18.  In both forward passes of the incomplete integrals at most        *)
(* max_transformations half argument transformations are recorded, so that *)
(* y, s and cd are written at the indices 0 .. max_transformations only,   *)
(* and a call whose loop wants one more pass ends in an error: it neither  *)
(* returns nor hangs.                                                      *)
(***************************************************************************)
IncWantsEleventh(c) ==
  \/ MoreC(c.lc) /\ c.lc.i = max_transformations
  \/ MoreS(c.ls) /\ c.ls.i = max_transformations

LadderInBounds(l) ==
  /\ l.i <= max_transformations
  /\ Len(l.ys) = l.i + 1
  /\ Len(l.ss) = l.i + 1
  /\ Len(l.cds) = l.i

C18_LevelBound ==
  /\ LadderInBounds(inc.lc)
  /\ LadderInBounds(inc.ls)
  /\ IncWantsEleventh(inc) => inc.pc \in {"halfC", "halfS", "failed"}

(***************************************************************************)
(* C19.  The backward pass of either entry routine makes one double        *)
(* argument transformation per level of its ladder, for k = i, ..., 1:     *)
(* with sy = s[k - 1] * y[k] and                                           *)
(* t = sy / (1 - n * (y[k - 1] - y[k] * cd[k - 1])) it replaces B by       *)
(* 2 B - sy, D by D + (D + sy) and J by J + (J + T(t, h)), where           *)
(* h = n (1 - n) (n - m) at every level; a ladder of no level is followed  *)
(* by no transformation.                                                   *)
(***************************************************************************)
C19_Update(k, v, l, n, m) ==
  LET h == FMul(FMul(n, FSub(One, n)), FSub(n, m))
      sy == FMul(l.ss[k], l.ys[k + 1])
      t == FDiv(sy, FSub(One, FMul(n, FSub(l.ys[k],
                                            FMul(l.ys[k + 1], l.cds[k])))))
  IN  [b |-> FSub(FMul(Two, v.b), sy), d |-> FAdd(v.d, FAdd(v.d, sy)),
       j |-> FAdd(v.j, FAdd(v.j, FukushimaT(t, h)))]

C19_Pass(pc, l, x) ==
  inc.pc = pc /\ inc'.pc = pc =>
    /\ inc.k >= 1
    /\ inc'.k = inc.k - 1
    /\ inc'.ups[x] = inc.ups[x] + 1
    /\ inc'.v = C19_Update(inc.k, inc.v, l, inc.arg[2],
                           FSub(One, inc.arg[3]))

C19_Counts ==
  /\ inc.pc = "doubleS" => inc.ups = <<0, inc.ls.i - inc.k>>
  /\ inc.pc = "doubleC" => inc.ups = <<inc.lc.i - inc.k, inc.ls.i>>
  /\ inc.pc = "top" => inc.ups = <<inc.lc.i, inc.ls.i>>
  /\ inc.pc = "done" /\ ~IncWantsEleventh(inc) =>
       inc.ups = <<inc.lc.i, inc.ls.i>>

C19_BackwardPass ==
  /\ []C19_Counts
  /\ [][C19_Pass("doubleS", inc.ls, 2) /\ C19_Pass("doubleC", inc.lc, 1)]_vars

C19_Witness ==
  /\ inc.pc = "done"
  /\ inc.lc.i >= 2
  /\ inc.ls.i >= 2
  /\ inc.ups = <<inc.lc.i, inc.ls.i>>
  /\ IsFinite(inc.ret[3])

(***************************************************************************)
(* C20.  A call of FukushimaEllipticBDJ(phi, n, mc) calls one entry        *)
(* routine, once, and the complete integrals at most once, and it is not   *)
(* entered again before it returns; for phi < phi_s the entry routine is   *)
(* BsDsJs, called on Sin(phi), and the complete integrals are not          *)
(* evaluated.                                                              *)
(***************************************************************************)
C20_OneLevel ==
  inc.pc # "idle" =>
    /\ inc.tops = 1
    /\ inc.entries = 1
    /\ inc.completes <= 1
    /\ FLt(inc.arg[1], <<167637942, -27>> (* 1.249 *)) =>
         /\ inc.sel.entry = "s"
         /\ inc.sel.earg = FSin(inc.arg[1])
         /\ inc.pc \notin {"halfC", "doubleC"}
         /\ inc.lc = IncIdle.lc
         /\ inc.completes = 0
    /\ inc.pc = "done" /\ ~IncWantsEleventh(inc) =>
         inc.completes = (IF FLt(inc.arg[1], <<167637942, -27>> (* 1.249 *)) THEN 0
                          ELSE IF inc.sel.br \in {"sc", "cc"} THEN 1 ELSE 0)

C20_Witness ==
  /\ inc.pc = "done"
  /\ FGe(inc.arg[1], <<167637942, -27>> (* 1.249 *))
  /\ inc.sel.br = "cc"
  /\ inc.completes = 1
  /\ inc.entries = 1
  /\ IsFinite(inc.ret[1])

TReturned == call.pc = "done" /\ call.fn = "FukushimaT"

(* The number of bounds of FukushimaT that |z| has reached.                *)
TReached(absz) == Cardinality({i \in DOMAIN TUpper : FGe(absz, TUpper[i])})

(***************************************************************************)
(* C21.  FukushimaT selects one formula from z = -h t^2: while |z| is      *)
(* below the largest bound 7.6353468e-2 it evaluates the Maclaurin series, *)
(* of a degree that does not decrease as |z| grows, and it uses a closed   *)
(* form, atan or atanh, only when |z| has reached the largest bound.       *)
(***************************************************************************)
C21_ClosedFormAboveAll ==
  TReturned =>
    /\ FLt(FAbs(call.path.z), TUpper[Len(TUpper)]) =>
         /\ call.path.branch = "maclaurin"
         /\ call.path.degree = TReached(FAbs(call.path.z))
    /\ call.path.branch \in {"atan", "atanh"} =>
         FGe(FAbs(call.path.z), TUpper[Len(TUpper)])

(* As amended: the arc tangent is used from the tenth bound on.            *)
C21_OneFormula ==
  /\ \A i \in 1 .. Len(TUpper) - 1 : FLt(TUpper[i], TUpper[i + 1])
  /\ TReturned =>
       LET z == call.path.z
           arc == FLt(z, Zero) /\ FGe(FAbs(z), TUpper[10])
           series == ~arc /\ FLt(FAbs(z), TUpper[Len(TUpper)])
       IN  /\ call.path.branch = "atan" <=> arc
           /\ call.path.branch = "maclaurin" <=> series
           /\ call.path.branch = "atanh" <=> ~arc /\ ~series
           /\ series => call.path.degree = TReached(FAbs(z))
           /\ series /\ call.path.degree = 0 => call.ret[1] = call.arg[1]

C21_Witness ==
  /\ TReturned
  /\ call.path.branch = "atan"
  /\ FLt(FAbs(call.path.z), TUpper[Len(TUpper)])
  /\ IsFinite(call.ret[1])

(***************************************************************************)
(* C22.  FukushimaT uses atan(t Sqrt(h)) / Sqrt(h) only with h > 0 and     *)
(* atanh(t Sqrt(-h)) / Sqrt(-h) only with h < 0, so that the operand of    *)
(* Sqrt is positive and the divisor is not zero; with h = 0 it returns t.  *)
(***************************************************************************)
C22_ClosedFormSafe ==
  TReturned =>
    /\ call.path.branch = "atan" => FGt(call.arg[2], Zero)
    /\ call.path.branch = "atanh" => FLt(call.arg[2], Zero)
    /\ call.path.branch # "maclaurin" =>
         /\ FGt(call.path.radicand, Zero)
         /\ FSqrt(call.path.radicand) # Zero
    /\ call.arg[2] = Zero => call.ret[1] = call.arg[1]

KReturned ==
  /\ call.pc = "done"
  /\ call.fn \in {"elk", "EllipticK"}
  /\ FGe(call.arg[1], Zero)
  /\ FLe(call.arg[1], One)

(***************************************************************************)
(* C23.  For mc in [0, 1] the complete integral of the first kind takes no *)
(* logarithm of zero or of a negative number: for mc < 1e-99 it returns    *)
(* 1.3862943611198906 - 0.5 ln(1e-99), for 1e-99 <= mc < 1.11e-16 it       *)
(* returns 1.3862943611198906 - 0.5 ln(mc), and the operand of the         *)
(* logarithm of the nome branch is positive.                               *)
(***************************************************************************)
C23_LogOfPositive ==
  KReturned =>
    /\ FGt(call.path.logarg, Zero)
    /\ FLt(call.arg[1], <<146783916, -356>> (* 1.0e-99 *)) =>
         call.ret[1] = FSub(<<186065279, -27>> (* 1.38629436 *),
                            FMul(Half, FLog(<<146783916, -356>> (* 1.0e-99 *))))
    /\ FGe(call.arg[1], <<146783916, -356>> (* 1.0e-99 *)) /\ FLt(call.arg[1], <<268381532, -81>> (* 1.11e-16 *)) =>
         call.ret[1] = FSub(<<186065279, -27>> (* 1.38629436 *), FMul(Half, FLog(call.arg[1])))

(* The call of EllipticK of claim C24 has returned: mc in [0.1, 1] outside *)
(* the branch |m| < 1e-16.                                                 *)
EllipticKPolyReturned ==
  /\ call.pc = "done"
  /\ call.fn = "EllipticK"
  /\ FGe(call.arg[1], <<214748364, -31>> (* 0.1 *))
  /\ FLe(call.arg[1], One)
  /\ FGe(FAbs(FSub(One, call.arg[1])), <<241785165, -81>> (* 1.0e-16 *))

(* The sub-intervals of m that the thresholds of the source delimit within *)
(* 0 < m <= 0.9: (lo, hi] with the number j.                               *)
SubLo(j) == IF j = 1 THEN Zero ELSE Dec(j - 1, -1)

SubHi(j) ==
  IF j <= 8 THEN Dec(j, -1) ELSE IF j = 9 THEN <<228170137, -28>> (* 0.85 *) ELSE <<241591910, -28>> (* 0.9 *)

SubLo10(j) == IF j = 10 THEN <<228170137, -28>> (* 0.85 *) ELSE SubLo(j)

InSub(j, lo, x) == FLt(lo, x) /\ FLe(x, SubHi(j))

(***************************************************************************)
(* C24.  For mc >= 0.1 outside the branch |m| < 1e-16 the integral of the  *)
(* first kind selects exactly one of nine sub-intervals of m = 1 - mc,     *)
(* which cover the range without overlap, and evaluates the polynomial of  *)
(* that sub-interval in m - centre, the centre lying in the sub-interval.  *)
(***************************************************************************)
C24_NineSubIntervals ==
  EllipticKPolyReturned =>
    LET m == FSub(One, call.arg[1])
        i == call.path.interval
    IN  /\ call.path.branch = "poly"
        /\ i \in 1 .. 9
        /\ {j \in 1 .. 9 : InSub(j, SubLo(j), m)} = {i}
        /\ InSub(i, SubLo(i), call.path.centre)

(* As amended: ten sub-intervals, delimited by the nine thresholds.        *)
C24_TenSubIntervals ==
  EllipticKPolyReturned =>
    LET m == FSub(One, call.arg[1])
        i == call.path.interval
    IN  /\ call.path.branch = "poly"
        /\ i \in 1 .. 10
        /\ {j \in 1 .. 10 : InSub(j, SubLo10(j), m)} = {i}
        /\ InSub(i, SubLo10(i), call.path.centre)
        /\ \A j \in 1 .. 9 : SubHi(j) = EllipticKUpper[j]
        /\ Len(EllipticKUpper) = 9
        /\ call.ret[1] = Horner(EllipticKCoef[i], FSub(m, call.path.centre))

C24_Witness ==
  /\ EllipticKPolyReturned
  /\ call.path.interval = 10
  /\ call.path.centre = <<234881024, -28>> (* 0.875 *)

(* z < 2 m y for y = b (2 a - b) and z = a^2.                              *)
CancellationTest(a, b, m) ==
  FLt(FMul(a, a), FMul(Two, FMul(m, FMul(b, FSub(FMul(a, Two), b)))))

C26_StepsSumToN ==
  /\ dup.pc \in {"first", "second", "done"} =>
       /\ dup.u0 = FMul(dup.arg[1], Pow2(-dup.n))
       /\ ~dup.message => FLt(dup.u0, Scd2UT(FSub(One, dup.arg[2])))
       /\ dup.message <=> dup.n > MaxHalvings
  /\ dup.pc \in {"idle", "halve"} => dup.std = 0 /\ dup.alt = 0
  /\ dup.pc = "first" => dup.std = dup.j - 1 /\ dup.alt = 0 /\ dup.j <= dup.n + 1
  /\ dup.pc = "second" => dup.std + dup.alt = dup.j - 1 /\ dup.j <= dup.n + 1
  /\ dup.pc = "done" => dup.std + dup.alt = dup.n

C26_Witness ==
  /\ dup.pc = "done"
  /\ ~dup.message
  /\ dup.n >= 3
  /\ dup.alt \in 1 .. dup.n - 1
  /\ dup.std = dup.n - dup.alt

(* The call elk(mc) of claim C27 has returned.                             *)
ElkReturned ==
  /\ call.pc = "done"
  /\ call.fn = "elk"
  /\ FGe(call.arg[1], Zero)
  /\ FLe(call.arg[1], One)

(***************************************************************************)
(* C27.  elk and EllipticK agree: for mc in [0, 1] and after any calls,    *)
(* elk(mc) returns the value of EllipticK(mc), a cache hit included, and   *)
(* when it evaluates a branch this is the branch of EllipticK, with the    *)
(* same thresholds, centre and coefficients.                               *)
(***************************************************************************)
C27_SameAsEllipticK ==
  ElkReturned =>
    LET k == EllipticKCall(call.arg[1], elkSave)
    IN  /\ call.ret = k.ret
        /\ call.path.branch # "cache" =>
             /\ call.path.branch = k.path.branch
             /\ call.path.interval = k.path.interval
             /\ call.path.centre = k.path.centre
        /\ call.path.branch = "poly" =>
             /\ ElkUpper = EllipticKUpper
             /\ ElkCoef[call.path.interval]
                  = EllipticKCoef[k.path.interval]
        /\ call.path.branch = "nome" => ElkKkcCoef = EllipticKKkcCoef

(* The ladder of the routine whose backward loop is in progress or was the *)
(* last to run.                                                            *)
BackwardLadder ==
  IF inc.pc = "doubleS" \/ inc.sel.entry = "s" THEN inc.ls ELSE inc.lc

(***************************************************************************)
(* C28.  The backward pass of either entry routine reads only entries that *)
(* the forward pass of the same call assigned: with i forward              *)
(* transformations s[0..i], y[0..i] and cd[0..i - 1] are assigned, the     *)
(* backward pass reads s[0..i - 1], y[0..i] and cd[0..i - 1], and it reads *)
(* neither cd[i] nor any entry above index i.                              *)
(***************************************************************************)
C28_ReadsWritten ==
  inc.pc \in {"doubleS", "doubleC", "top", "done"} /\ ~IncWantsEleventh(inc) =>
    LET l == BackwardLadder
        k == IF inc.pc \in {"doubleS", "doubleC"} THEN inc.k ELSE 0
    IN  /\ Len(l.ss) = l.i + 1
        /\ Len(l.ys) = l.i + 1
        /\ Len(l.cds) = l.i
        /\ inc.reads.s = k .. l.i - 1
        /\ inc.reads.y = (IF k = l.i THEN {} ELSE k .. l.i)
        /\ inc.reads.cd = k .. l.i - 1
        /\ inc.reads.s \subseteq 0 .. Len(l.ss) - 1
        /\ inc.reads.y \subseteq 0 .. Len(l.ys) - 1
        /\ inc.reads.cd \subseteq 0 .. Len(l.cds) - 1
        /\ l.i \notin inc.reads.cd

C28_Witness ==
  /\ inc.pc = "top"
  /\ inc.sel.entry = "c"
  /\ inc.lc.i >= 2
  /\ inc.nested = 1
  /\ inc.ls.i >= 2
  /\ inc.reads = [s |-> 0 .. inc.lc.i - 1, y |-> 0 .. inc.lc.i,
                   cd |-> 0 .. inc.lc.i - 1]

(* BsDsJs has called the Maclaurin series of Js in the call in progress.   *)
JsSeriesCalled == inc.jterms > 0

(***************************************************************************)
(* C29.  Every call of the Maclaurin series of Js made by BsDsJs has       *)
(* 0 <= y < yB = 0.01622, below the last threshold 1.6220210e-02 of the    *)
(* series, so the series stops at one of J5, ..., J9 and the branch of JA  *)
(* is never taken.                                                         *)
(***************************************************************************)
C29_SeriesBelowYB ==
  /\ FLt(<<139328739, -33>> (* 0.01622 *), JsUpper[Len(JsUpper)])
  /\ JsSeriesCalled =>
       /\ FGe(inc.ls.yi, Zero)
       /\ FLt(inc.ls.yi, <<139328739, -33>> (* 0.01622 *))
       /\ inc.jterms \in 5 .. 9
       /\ inc.jterms # 10

C29_Witness ==
  /\ inc.pc = "doubleS"
  /\ inc.ls.i >= 2
  /\ inc.jterms = 9
  /\ FLt(JsUpper[4], inc.ls.yi)

(* Gscd(u, mc) has returned from its branch for |u| >= 0.785, its reduced  *)
(* argument lies in [0, 4K) and scd2 returned s >= 0, c >= 0, d > 0.       *)
GscdReconstructed ==
  /\ call.pc = "done"
  /\ call.fn = "Gscd"
  /\ call.path.octant # 0
  /\ FGe(call.path.ux, Zero)
  /\ FLt(call.path.ux, FMul(call.path.k, <<134217728, -25>> (* 4 *)))
  /\ FGe(call.path.raw[1], Zero)
  /\ FGe(call.path.raw[2], Zero)
  /\ FGt(call.path.raw[3], Zero)

(***************************************************************************)
(* C30.  For |u| >= 0.785 and a core routine that returns s >= 0, c >= 0,  *)
(* d > 0, the signs of the result of Gscd depend only on where the reduced *)
(* argument ux in [0, 4K) lies: before the sign of u is restored, s >= 0   *)
(* for ux < 2K and s <= 0 for ux >= 2K; c >= 0 for ux < K or ux >= 3K and  *)
(* c <= 0 for K <= ux < 3K; and d > 0 in every octant.                     *)
(***************************************************************************)
C30_SignsByOctant ==
  GscdReconstructed =>
    LET ux == call.path.ux
        K == call.path.k
        K2 == FMul(K, Two)
        K3 == FMul(K, <<201326592, -26>> (* 3 *))
    IN  /\ FLt(ux, K2) => FGe(call.path.pre, Zero)
        /\ FGe(ux, K2) => FLe(call.path.pre, Zero)
        /\ FLt(ux, K) \/ FGe(ux, K3) => FGe(call.ret[2], Zero)
        /\ FGe(ux, K) /\ FLt(ux, K3) => FLe(call.ret[2], Zero)
        /\ FGt(call.ret[3], Zero)

(* A call with a negative u whose reduced argument lies in the sixth       *)
(* octant, where s and c are both negative before the sign is restored.    *)
C30_Witness ==
  /\ GscdReconstructed
  /\ call.path.octant = 6
  /\ FLt(call.arg[1], Zero)
  /\ FLt(call.path.pre, Zero)
  /\ FGt(call.ret[1], Zero)
  /\ FLt(call.ret[2], Zero)

====
